---- MODULE Spec2Model ----
(***************************************************************************)
(* Multi-model automaton interpreter (two-way automaton, Turing machine,   *)
(* one-stack PDA, two-stack PDA, transducer).                              *)
(*                                                                         *)
(* The model follows one invocation of main (src/main.go): parseRules,     *)
(* buildGraph, validateNoWriteOnHash, parseTapeArg and then the run loop.  *)
(* The run loop is either the shared stepper (run + State.Step of          *)
(* src/main.go) or the per-kind Machine.Run methods of the other           *)
(* snapshots (src/core.go, src/pda.go, src/trans.go, src/unnamed/part_000, *)
(* src/unnamed/part_001); the variable impl says which.                    *)
(*                                                                         *)
(* A rule-file line is modelled after tokenisation: the id token before    *)
(* ']', the words of the mode, the (sym,to) token pairs, and whether the   *)
(* text contains the words accept / reject.  Symbols are one-character     *)
(* strings; the zero byte (an unset writeSym/stackSym/printSym) is NUL.    *)
(***************************************************************************)
EXTENDS Integers, Sequences, FiniteSets, TLC

VARIABLES
    pc,        \* position in main: parse, build, validate, tape, run, done
    impl,      \* "shared" (main.go run/Step) or "machine" (Machine.Run snapshots)
    kind,      \* MachineKind selected on the command line
    file,      \* the rule file, a sequence of tokenised lines
    tapeArg,   \* the tape argument of the command line
    raws,      \* parseRules result: the rawLine records
    maxID,     \* parseRules result: the largest id mentioned
    states,    \* buildGraph result: id -> State, defined on the non-nil entries
    q,         \* id of the current state of the run
    rt,        \* Runtime: Tape, Head, Stack, Stack2, Output
    outcome,   \* "none" while running, then "accept", "reject" or "error"
    err,       \* which error was reported ("" for none)
    errId,     \* the state id a validation error names (NilId otherwise)
    steps,     \* number of loop iterations of the run so far
    nxt,       \* id of the successor the last step returned (NilId for nil)
    runNo,     \* 1 for the first run over the graph, 2 for the repeated run
    first,     \* what the first run ended with (outcome, tape, output)
    prev,      \* the state id and the Runtime the last step started from
    run2       \* a second run over the same graph, interleaved with the first

vars == <<pc, impl, kind, file, tapeArg, raws, maxID, states, q, rt, outcome,
          err, errId, steps, nxt, runNo, first, prev, run2>>

(***************************************************************************)
(* Bounds of the model.                                                    *)
(***************************************************************************)
MaxInterior == 2    \* longest tape interior of the general specification
MaxSteps == 8       \* loop iterations explored per run (the code has no cap)
MaxWord == 4        \* longest tape interior of the a^n b^n runs
MaxEcho == 3        \* longest tape interior of the echo transducer runs
MaxLines == 2       \* longest rule file of the builder specification

(***************************************************************************)
(* Enumerations of src/main.go.                                            *)
(***************************************************************************)
L == -1
R == 1

KindTWA == "twa"
KindTM == "tm"
KindPDA == "pda"
KindTwoWayPDA == "2pda"
KindTransducer == "transducer"
Kinds == {KindTWA, KindTM, KindPDA, KindTwoWayPDA, KindTransducer}

ActNone == "None"
ActScan == "Scan"
ActWriteTape == "WriteTape"
ActPush1 == "Push1"
ActPop1 == "Pop1"
ActPush2 == "Push2"
ActPop2 == "Pop2"
ActPrint == "Print"

NUL == ""
Hash == "#"
Placeholder == "_"

(***************************************************************************)
(* Small helpers.                                                          *)
(***************************************************************************)
Max(a, b) == IF a > b THEN a ELSE b

Last(s) == s[Len(s)]

Front(s) == SubSeq(s, 1, Len(s) - 1)

\* All sequences over S of length at most n.
RECURSIVE SeqsUpTo(_, _)
SeqsUpTo(S, n) ==
    IF n = 0 THEN {<<>>}
    ELSE LET shorter == SeqsUpTo(S, n - 1)
         IN  shorter \cup {Append(s, x) : s \in {t \in shorter : Len(t) = n - 1}, x \in S}

\* strconv.Atoi on the one-digit numerals; every other token is an error.
Digits == <<"0", "1", "2", "3", "4", "5", "6", "7", "8", "9">>

Atoi(tok) ==
    IF \E i \in 1..Len(Digits) : Digits[i] = tok
    THEN [ok |-> TRUE, v |-> (CHOOSE i \in 1..Len(Digits) : Digits[i] = tok) - 1]
    ELSE [ok |-> FALSE, v |-> 0]

(***************************************************************************)
(* parseDirWord, parseActionWord, parseMode (src/main.go).  A mode is the  *)
(* sequence of its lower-cased words (strings.Fields after '-' -> ' ').    *)
(***************************************************************************)
parseDirWord(w) ==
    IF w \in {"left", "l"} THEN [d |-> L, ok |-> TRUE]
    ELSE IF w \in {"right", "r"} THEN [d |-> R, ok |-> TRUE]
    ELSE [d |-> R, ok |-> FALSE]

parseActionWord(w) ==
    IF w = "scan" THEN [a |-> ActScan, ok |-> TRUE]
    ELSE IF w = "none" THEN [a |-> ActNone, ok |-> TRUE]
    ELSE IF w = "print" THEN [a |-> ActPrint, ok |-> TRUE]
    ELSE IF w \in {"write", "write1", "push", "push1"} THEN [a |-> ActPush1, ok |-> TRUE]
    ELSE IF w \in {"write2", "push2"} THEN [a |-> ActPush2, ok |-> TRUE]
    ELSE IF w \in {"read", "read1", "pop", "pop1"} THEN [a |-> ActPop1, ok |-> TRUE]
    ELSE IF w \in {"read2", "pop2"} THEN [a |-> ActPop2, ok |-> TRUE]
    ELSE IF w = "write-tape" THEN [a |-> ActWriteTape, ok |-> TRUE]   \* src/core.go only
    ELSE [a |-> ActNone, ok |-> FALSE]

hyphenParts_Whole(w) == <<w>>

\* strings.ReplaceAll(s, "-", " ") followed by strings.Fields: every word is
\* cut at its hyphens.
hyphenParts(w) ==
    IF w = "write-tape" THEN <<"write", "tape">>
    ELSE IF w = "scan-left" THEN <<"scan", "left">>
    ELSE IF w = "scan-right" THEN <<"scan", "right">>
    ELSE <<w>>

RECURSIVE modeFields(_)
modeFields(words) ==
    IF words = <<>> THEN <<>> ELSE hyphenParts(Head(words)) \o modeFields(Tail(words))

parseMode(words) ==
    LET parts == modeFields(words) IN
    IF Len(parts) = 0 THEN [d |-> R, a |-> ActScan, ok |-> FALSE]
    ELSE IF Len(parts) = 1 THEN
        IF parseDirWord(parts[1]).ok
        THEN [d |-> parseDirWord(parts[1]).d, a |-> ActScan, ok |-> TRUE]
        ELSE IF parseActionWord(parts[1]).ok
        THEN [d |-> R, a |-> parseActionWord(parts[1]).a, ok |-> TRUE]
        ELSE [d |-> R, a |-> ActScan, ok |-> FALSE]
    ELSE IF parseActionWord(parts[1]).ok /\ parseDirWord(parts[2]).ok
        THEN [d |-> parseDirWord(parts[2]).d, a |-> parseActionWord(parts[1]).a, ok |-> TRUE]
        ELSE [d |-> R, a |-> ActScan, ok |-> FALSE]

(***************************************************************************)
(* Rule-file lines after tokenisation.                                     *)
(*   rb       the line has a ']' after at least one character              *)
(*   id       the token before ']'                                         *)
(*   words    the lower-cased words between ']' and the first '('          *)
(*   pairs    the complete "(sym,to)" groups, as token pairs               *)
(*   dangling a '(' with no ')' follows the complete groups                *)
(*   acc/rej  the text contains "accept" / "reject"                        *)
(***************************************************************************)
OneChar == {"#", "_", "a", "b", "c", "x"}

TextLine(id, words, pairs, acc, rej) ==
    [rb |-> TRUE, id |-> id, words |-> words, pairs |-> pairs,
     dangling |-> FALSE, acc |-> acc, rej |-> rej]

AcceptLine(id) == TextLine(id, <<"accept">>, <<>>, TRUE, FALSE)
RejectLine(id) == TextLine(id, <<"reject">>, <<>>, FALSE, TRUE)
ModeLine(id, words, pairs) == TextLine(id, words, pairs, FALSE, FALSE)
PrintLine(id, sym, to) == TextLine(id, <<"print">>, <<<<sym, to>>>>, FALSE, FALSE)

\* The zero value of rawLine.
rawLine == [id |-> 0, dir |-> 0, action |-> ActNone, pairs |-> <<>>,
            acc |-> FALSE, rej |-> FALSE, outSym |-> NUL]

ParseOk(ln, m) == [err |-> "", line |-> ln, max |-> m]
ParseErr(msg) == [err |-> msg, line |-> rawLine, max |-> 0]

\* The pair loop of a mode line: the first bad pair is the error; otherwise
\* the largest target id seen.
RECURSIVE parsePairs(_, _, _)
parsePairs(pairs, i, m) ==
    IF i > Len(pairs) THEN [err |-> "", max |-> m]
    ELSE IF pairs[i][1] \notin OneChar THEN [err |-> "bad symbol", max |-> m]
    ELSE IF ~Atoi(pairs[i][2]).ok THEN [err |-> "bad to-state", max |-> m]
    ELSE parsePairs(pairs, i + 1, Max(m, Atoi(pairs[i][2]).v))

\* One iteration of the scanner loop of parseRules on a non-blank line;
\* m is maxID before the line.
parseLine(t, m) ==
    IF t.rb /\ t.acc THEN
        IF ~Atoi(t.id).ok THEN ParseErr("bad id")
        ELSE ParseOk([rawLine EXCEPT !.id = Atoi(t.id).v, !.acc = TRUE],
                     Max(m, Atoi(t.id).v))
    ELSE IF t.rb /\ t.rej THEN
        IF ~Atoi(t.id).ok THEN ParseErr("bad id")
        ELSE ParseOk([rawLine EXCEPT !.id = Atoi(t.id).v, !.rej = TRUE],
                     Max(m, Atoi(t.id).v))
    ELSE IF ~t.rb THEN ParseErr("bad syntax")
    ELSE IF ~Atoi(t.id).ok THEN ParseErr("bad id")
    ELSE IF Len(t.words) > 0 /\ t.words[1] = "print" THEN
        IF Len(t.pairs) = 0 THEN ParseErr("bad print syntax")
        ELSE IF t.pairs[1][1] \notin OneChar THEN ParseErr("print sym must be 1 char")
        ELSE IF t.pairs[1][1] = Hash THEN ParseErr("print sym cannot be '#'")
        ELSE IF ~Atoi(t.pairs[1][2]).ok THEN ParseErr("bad to-state")
        ELSE ParseOk([rawLine EXCEPT !.id = Atoi(t.id).v, !.action = ActPrint,
                                     !.outSym = t.pairs[1][1],
                                     !.pairs = <<<<Placeholder, t.pairs[1][2]>>>>],
                     Max(Max(m, Atoi(t.pairs[1][2]).v), Atoi(t.id).v))
    ELSE IF Len(t.pairs) = 0 /\ ~t.dangling THEN ParseErr("missing '('")
    ELSE IF ~parseMode(t.words).ok THEN ParseErr("bad mode")
    ELSE IF parsePairs(t.pairs, 1, m).err # "" THEN ParseErr(parsePairs(t.pairs, 1, m).err)
    ELSE ParseOk([rawLine EXCEPT !.id = Atoi(t.id).v, !.dir = parseMode(t.words).d,
                                 !.action = parseMode(t.words).a, !.pairs = t.pairs],
                 Max(parsePairs(t.pairs, 1, m).max, Atoi(t.id).v))

RECURSIVE parseFrom(_, _, _, _)
parseFrom(f, i, lines, m) ==
    IF i > Len(f) THEN
        IF m = 0 THEN [err |-> "no states parsed", lines |-> <<>>, maxID |-> 0]
        ELSE [err |-> "", lines |-> lines, maxID |-> m]
    ELSE LET r == parseLine(f[i], m)
         IN  IF r.err # "" THEN [err |-> r.err, lines |-> <<>>, maxID |-> 0]
             ELSE parseFrom(f, i + 1, Append(lines, r.line), r.max)

parseRules(f) == parseFrom(f, 1, <<>>, 0)

ParseErrs == {"bad id", "bad syntax", "bad print syntax", "print sym must be 1 char",
              "print sym cannot be '#'", "bad to-state", "missing '('", "bad mode",
              "bad symbol", "no states parsed"}

(***************************************************************************)
(* buildGraph (src/main.go; buildStates of src/core.go is the same code).  *)
(* The state table st is a function on the ids whose entry is non-nil; an  *)
(* edge holds the id of its target, the index of the shared *State, and    *)
(* NilId stands for a nil *State.                                          *)
(***************************************************************************)
EmptyMap == [k \in {} |-> 0]

NilId == -1

MapPut(m, k, v) == [x \in (DOMAIN m) \cup {k} |-> IF x = k THEN v ELSE m[x]]

NewState(id) ==
    [id |-> id, dir |-> R, next |-> EmptyMap, accept |-> FALSE, reject |-> FALSE,
     action |-> ActScan, writeSym |-> NUL, stackSym |-> NUL, printSym |-> NUL]

\* The first loop: the ids used as a source or as a target.
UsedIds(lines) ==
    {lines[i].id : i \in 1..Len(lines)}
    \cup UNION {{Atoi(lines[i].pairs[j][2]).v : j \in 1..Len(lines[i].pairs)} :
                   i \in 1..Len(lines)}

\* The flag, direction, action and symbol assignments of one record.
applyFields_LastPair(s, ln) ==
    LET s1 == [s EXCEPT !.accept = IF ln.acc THEN TRUE ELSE @,
                        !.reject = IF ln.rej THEN TRUE ELSE @]
        s2 == IF Len(ln.pairs) > 0 \/ ln.action # ActNone
              THEN [s1 EXCEPT !.dir = ln.dir,
                              !.action = IF ln.action # ActNone THEN ln.action ELSE @]
              ELSE s1
        s3 == IF ln.action = ActPrint THEN [s2 EXCEPT !.printSym = ln.outSym] ELSE s2
    IN  IF ln.action \in {ActPush1, ActPush2} /\ Len(ln.pairs) > 0
        THEN [s3 EXCEPT !.stackSym = ln.pairs[Len(ln.pairs)][1]]
        ELSE s3

applyFields(s, ln) ==
    LET s1 == [s EXCEPT !.accept = IF ln.acc THEN TRUE ELSE @,
                        !.reject = IF ln.rej THEN TRUE ELSE @]
        s2 == IF Len(ln.pairs) > 0 \/ ln.action # ActNone
              THEN [s1 EXCEPT !.dir = ln.dir,
                              !.action = IF ln.action # ActNone THEN ln.action ELSE @]
              ELSE s1
        s3 == IF ln.action = ActPrint THEN [s2 EXCEPT !.printSym = ln.outSym] ELSE s2
    IN  IF ln.action \in {ActPush1, ActPush2} /\ Len(ln.pairs) > 0
        THEN [s3 EXCEPT !.stackSym = ln.pairs[1][1]]
        ELSE s3

\* The inner loop over a record's pairs: s.next[key] = st[toID].
RECURSIVE addPairs(_, _, _, _)
addPairs(st, id, pairs, j) ==
    IF j > Len(pairs) THEN st
    ELSE LET toID == Atoi(pairs[j][2]).v
             st1 == IF toID \in DOMAIN st THEN st
                    ELSE [x \in (DOMAIN st) \cup {toID} |->
                             IF x = toID THEN NewState(toID) ELSE st[x]]
             st2 == [st1 EXCEPT ![id].next = MapPut(@, pairs[j][1], toID)]
         IN  addPairs(st2, id, pairs, j + 1)

RECURSIVE applyLines(_, _, _)
applyLines(st, lines, i) ==
    IF i > Len(lines) THEN st
    ELSE LET ln == lines[i]
         IN  IF ln.id \notin DOMAIN st THEN applyLines(st, lines, i + 1)
             ELSE applyLines(
                     addPairs([st EXCEPT ![ln.id] = applyFields(@, ln)], ln.id, ln.pairs, 1),
                     lines, i + 1)

StartId == 1

BuildErr == "start state 1 not defined"

buildGraph_NoStartCheck(lines, m) ==
    LET st == applyLines([id \in UsedIds(lines) |-> NewState(id)], lines, 1)
    IN  [err |-> "", st |-> st, start |-> StartId]

buildGraph(lines, m) ==
    LET st == applyLines([id \in UsedIds(lines) |-> NewState(id)], lines, 1)
    IN  IF StartId \in DOMAIN st
        THEN [err |-> "", st |-> st, start |-> StartId]
        ELSE [err |-> BuildErr, st |-> st, start |-> NilId]

(***************************************************************************)
(* validateNoWriteOnHash (src/main.go): for PDA and 2PDA the first state,  *)
(* in id order, that pushes and has an edge on '#' is the error.           *)
(***************************************************************************)
PushOnHash_None(st) == {}

PushOnHash_Push1Only(st) ==
    {id \in DOMAIN st : st[id].action = ActPush1 /\ Hash \in DOMAIN st[id].next}

PushOnHash(st) ==
    {id \in DOMAIN st : st[id].action \in {ActPush1, ActPush2} /\ Hash \in DOMAIN st[id].next}

ValidationErr == "Write on '#' is not allowed"

validateNoWriteOnHash(st, k) ==
    IF k # KindPDA /\ k # KindTwoWayPDA THEN [err |-> "", id |-> NilId]
    ELSE IF PushOnHash(st) = {} THEN [err |-> "", id |-> NilId]
    ELSE [err |-> ValidationErr,
          id |-> CHOOSE id \in PushOnHash(st) : \A o \in PushOnHash(st) : id <= o]

(***************************************************************************)
(* parseTapeArg (src/main.go): the tape is a sequence of symbols.          *)
(***************************************************************************)
TapeErr == "tape must be wrapped with #...#"

parseTapeArg(arg) ==
    IF Len(arg) < 2 \/ arg[1] # Hash \/ arg[Len(arg)] # Hash
    THEN [err |-> TapeErr, tape |-> <<>>]
    ELSE [err |-> "", tape |-> arg]

\* The Runtime main builds for a run.
NewRuntime(tape) ==
    [Tape |-> tape, Head |-> 1, Stack |-> <<>>, Stack2 |-> <<>>, Output |-> <<>>]

(***************************************************************************)
(* State.Step (src/main.go): one step of the shared stepper.  The result   *)
(* is the triple Step returns (nxt, status, err) and the Runtime after the *)
(* step.                                                                   *)
(***************************************************************************)
Continue == "Continue"
Accept == "Accept"
Reject == "Reject"

InBounds(r) == r.Head >= 0 /\ r.Head < Len(r.Tape)

Cur(r) == r.Tape[r.Head + 1]

StepResult_Echo(n, status, e, r) ==
    [nxt |-> n, status |-> status, err |-> e, rt |-> [r EXCEPT !.Output = Append(@, "x")]]

StepResult(n, status, e, r) == [nxt |-> n, status |-> status, err |-> e, rt |-> r]

\* The successors a print state can resolve to: the '_' edge, or the edge
\* the range loop yields first when the map has exactly one entry.
PrintSuccessors_AnyEdge(s) ==
    {s.next[k] : k \in DOMAIN s.next}

PrintSuccessors(s) ==
    IF Placeholder \in DOMAIN s.next THEN {s.next[Placeholder]}
    ELSE IF Cardinality(DOMAIN s.next) = 1 THEN {s.next[k] : k \in DOMAIN s.next}
    ELSE {}

PrintChoices_SelfLoop(s) == IF PrintSuccessors(s) = {} THEN {s.id} ELSE PrintSuccessors(s)

PrintChoices(s) == IF PrintSuccessors(s) = {} THEN {NilId} ELSE PrintSuccessors(s)

\* The action switch: the error it returns, if any, and the Runtime after it.
popStack(stack, gate, underflow, mismatch) ==
    IF Len(stack) = 0 THEN [err |-> underflow, stack |-> stack]
    ELSE IF gate # NUL /\ Last(stack) # gate THEN [err |-> mismatch, stack |-> stack]
    ELSE [err |-> "", stack |-> Front(stack)]

applyAction(s, r, k, cur) ==
    IF s.action = ActWriteTape THEN
        [err |-> "", rt |-> [r EXCEPT !.Tape[r.Head + 1] = s.writeSym]]
    ELSE IF s.action = ActPush1 THEN
        IF s.stackSym = NUL \/ cur = s.stackSym
        THEN [err |-> "", rt |-> [r EXCEPT !.Stack = Append(@, s.stackSym)]]
        ELSE [err |-> "", rt |-> r]
    ELSE IF s.action = ActPop1 THEN
        IF k \in {KindPDA, KindTwoWayPDA} /\ cur = Hash THEN [err |-> "", rt |-> r]
        ELSE LET p == popStack(r.Stack, s.stackSym, "stack1 underflow", "stack1 unexpected top")
             IN  [err |-> p.err, rt |-> [r EXCEPT !.Stack = p.stack]]
    ELSE IF s.action = ActPush2 THEN
        IF s.stackSym = NUL \/ cur = s.stackSym
        THEN [err |-> "", rt |-> [r EXCEPT !.Stack2 = Append(@, s.stackSym)]]
        ELSE [err |-> "", rt |-> r]
    ELSE IF s.action = ActPop2 THEN
        IF k \in {KindPDA, KindTwoWayPDA} /\ cur = Hash THEN [err |-> "", rt |-> r]
        ELSE LET p == popStack(r.Stack2, s.stackSym, "stack2 underflow", "stack2 unexpected top")
             IN  [err |-> p.err, rt |-> [r EXCEPT !.Stack2 = p.stack]]
    ELSE [err |-> "", rt |-> r]

moveHead_OverBoundary(s, n, r, k, cur) ==
    IF k \in {KindTWA, KindTM} THEN
        IF n.dir = L THEN [r EXCEPT !.Head = @ - 1] ELSE [r EXCEPT !.Head = @ + 1]
    ELSE IF k = KindTransducer THEN
        IF s.action = ActScan /\ cur # Hash THEN [r EXCEPT !.Head = @ + 1] ELSE r
    ELSE [r EXCEPT !.Head = @ + 1]

moveHead_OneWay(s, n, r, k, cur) ==
    IF k \in {KindTWA, KindTM} THEN
        IF n.dir = L THEN [r EXCEPT !.Head = @ - 1] ELSE [r EXCEPT !.Head = @ + 1]
    ELSE IF cur # Hash THEN [r EXCEPT !.Head = @ + 1] ELSE r

\* The head move by machine kind.
moveHead(s, n, r, k, cur) ==
    IF k \in {KindTWA, KindTM} THEN
        IF n.dir = L THEN [r EXCEPT !.Head = @ - 1] ELSE [r EXCEPT !.Head = @ + 1]
    ELSE IF k \in {KindPDA, KindTwoWayPDA} THEN
        IF cur # Hash THEN [r EXCEPT !.Head = @ + 1] ELSE r
    ELSE IF k = KindTransducer THEN
        IF s.action = ActScan /\ cur # Hash THEN [r EXCEPT !.Head = @ + 1] ELSE r
    ELSE [r EXCEPT !.Head = @ + 1]

acceptCheck_NoStackTest(n, r, k) ==
    IF n.accept THEN Accept ELSE IF n.reject THEN Reject ELSE Continue

\* The unified accept/reject check at the end of Step.
acceptCheck(n, r, k) ==
    IF n.accept THEN
        IF k = KindPDA THEN (IF Len(r.Stack) = 0 THEN Accept ELSE Reject)
        ELSE IF k = KindTwoWayPDA
            THEN (IF Len(r.Stack) = 0 /\ Len(r.Stack2) = 0 THEN Accept ELSE Reject)
        ELSE Accept
    ELSE IF n.reject THEN Reject
    ELSE Continue

\* The status of a print step, from the successor's flags alone.
printCheck(n, r, k) ==
    IF n.accept THEN Accept ELSE IF n.reject THEN Reject ELSE Continue

\* What a transition lookup that finds no edge returns.
missingEdge(s, r) == StepResult(NilId, Reject, "invalid symbol", r)

endShortcut_AnyKind(s, r, k) ==
    Cur(r) = Hash /\ r.Head = Len(r.Tape) - 1 /\ s.action # ActPrint

endShortcut_AnyState(s, r, k) ==
    k = KindTransducer /\ Cur(r) = Hash /\ r.Head = Len(r.Tape) - 1

\* The transducer's early end on the last '#' in a non-print state.
endShortcut(s, r, k) ==
    k = KindTransducer /\ Cur(r) = Hash /\ r.Head = Len(r.Tape) - 1 /\ s.action # ActPrint

\* pick is the successor the print branch resolves (NilId for none).
Step(st, id, r, k, pick) ==
    LET s == st[id] IN
    IF ~InBounds(r) THEN StepResult(NilId, Reject, "head out of bounds", r)
    ELSE LET cur == Cur(r) IN
    IF endShortcut(s, r, k)
    THEN StepResult(id, Accept, "", r)
    ELSE IF s.action = ActPrint THEN
        IF pick = NilId THEN StepResult(NilId, Reject, "print state missing next", r)
        ELSE IF s.printSym = NUL THEN StepResult(NilId, Reject, "print state has no printSym", r)
        ELSE LET r1 == [r EXCEPT !.Output = Append(@, s.printSym)]
             IN  StepResult(pick, printCheck(st[pick], r1, k), "", r1)
    ELSE IF cur \notin DOMAIN s.next THEN missingEdge(s, r)
    ELSE LET n == s.next[cur]
             eff == applyAction(s, r, k, cur)
         IN  IF eff.err # "" THEN StepResult(n, Reject, eff.err, r)
             ELSE LET r2 == moveHead(s, st[n], eff.rt, k, cur)
                  IN  IF ~InBounds(r2) THEN StepResult(n, Reject, "head moved out of tape", r2)
                      ELSE StepResult(n, acceptCheck(st[n], r2, k), "", r2)

(***************************************************************************)
(* One loop iteration of each Machine.Run method, in the shape of Step's   *)
(* result: Run returning (true, nil) is Accept, (false, nil) is Reject,    *)
(* (false, err) carries err.  head, stack and output are the method's      *)
(* locals (m.output for the transducer), kept in the Runtime record.       *)
(***************************************************************************)
\* TWAMachine.Run (src/core.go).
TWARunStep(st, id, r) ==
    LET s == st[id] IN
    IF ~InBounds(r) THEN StepResult(NilId, Reject, "head out of bounds", r)
    ELSE LET cur == Cur(r) IN
    IF cur \notin DOMAIN s.next THEN StepResult(NilId, Reject, "", r)
    ELSE LET n == s.next[cur] IN
    IF st[n].accept THEN StepResult(n, Accept, "", r)
    ELSE IF st[n].reject THEN StepResult(n, Reject, "", r)
    ELSE IF cur # Hash
        THEN StepResult(n, Continue, "",
                        IF s.dir = L THEN [r EXCEPT !.Head = @ - 1]
                        ELSE [r EXCEPT !.Head = @ + 1])
        ELSE StepResult(n, Continue, "", r)

\* TMMachine.Run (src/unnamed/part_000).
TMRunStep(st, id, r) ==
    LET s == st[id] IN
    IF ~InBounds(r) THEN StepResult(NilId, Reject, "head out of bounds", r)
    ELSE LET cur == Cur(r) IN
    IF cur \notin DOMAIN s.next THEN StepResult(NilId, Reject, "", r)
    ELSE LET n == s.next[cur]
             r1 == IF s.action = ActWriteTape /\ s.writeSym # NUL
                   THEN [r EXCEPT !.Tape[r.Head + 1] = s.writeSym] ELSE r
             r2 == IF st[n].dir = L THEN [r1 EXCEPT !.Head = @ - 1]
                   ELSE [r1 EXCEPT !.Head = @ + 1]
         IN  IF st[n].accept THEN StepResult(n, Accept, "", r2)
             ELSE IF st[n].reject THEN StepResult(n, Reject, "", r2)
             ELSE StepResult(n, Continue, "", r2)

\* PDAMachine.Run (src/pda.go).
PDARunStep(st, id, r) ==
    LET s == st[id] IN
    IF ~InBounds(r) THEN StepResult(NilId, Reject, "PDA head out of bounds", r)
    ELSE LET cur == Cur(r) IN
    IF cur \notin DOMAIN s.next THEN StepResult(NilId, Reject, "", r)
    ELSE LET n == s.next[cur]
             pushed == IF s.stackSym = NUL \/ cur = s.stackSym
                       THEN [r EXCEPT !.Stack = Append(@, s.stackSym)] ELSE r
             adv(x) == IF cur # Hash THEN [x EXCEPT !.Head = @ + 1] ELSE x
             fin(x) == IF st[n].accept
                       THEN StepResult(n, IF Len(x.Stack) = 0 THEN Accept ELSE Reject, "", x)
                       ELSE IF st[n].reject THEN StepResult(n, Reject, "", x)
                       ELSE StepResult(n, Continue, "", x)
         IN  IF s.action = ActPush1 THEN fin(adv(pushed))
             ELSE IF s.action = ActPop1 /\ cur # Hash THEN
                 IF Len(r.Stack) = 0 THEN StepResult(n, Reject, "", r)
                 ELSE IF s.stackSym # NUL /\ Last(r.Stack) # s.stackSym
                     THEN StepResult(n, Reject, "", r)
                 ELSE fin(adv([r EXCEPT !.Stack = Front(@)]))
             ELSE fin(adv(r))

\* TwoPDAMachine.Run (src/unnamed/part_001, first snapshot).
TwoPDARunStep(st, id, r) ==
    LET s == st[id] IN
    IF ~InBounds(r) THEN StepResult(NilId, Reject, "2PDA head out of bounds", r)
    ELSE LET cur == Cur(r) IN
    IF cur \notin DOMAIN s.next THEN StepResult(NilId, Reject, "", r)
    ELSE LET n == s.next[cur]
             gateOpen == s.stackSym = NUL \/ cur = s.stackSym
             adv(x) == IF cur # Hash THEN [x EXCEPT !.Head = @ + 1] ELSE x
             fin(x) == IF st[n].accept
                       THEN StepResult(n, IF Len(x.Stack) = 0 /\ Len(x.Stack2) = 0
                                          THEN Accept ELSE Reject, "", x)
                       ELSE IF st[n].reject THEN StepResult(n, Reject, "", x)
                       ELSE StepResult(n, Continue, "", x)
         IN  IF s.action = ActPush1 THEN
                 fin(adv(IF gateOpen THEN [r EXCEPT !.Stack = Append(@, s.stackSym)] ELSE r))
             ELSE IF s.action = ActPop1 /\ cur # Hash THEN
                 IF Len(r.Stack) = 0 THEN StepResult(n, Reject, "", r)
                 ELSE IF s.stackSym # NUL /\ Last(r.Stack) # s.stackSym
                     THEN StepResult(n, Reject, "", r)
                 ELSE fin(adv([r EXCEPT !.Stack = Front(@)]))
             ELSE IF s.action = ActPush2 THEN
                 fin(adv(IF gateOpen THEN [r EXCEPT !.Stack2 = Append(@, s.stackSym)] ELSE r))
             ELSE IF s.action = ActPop2 /\ cur # Hash THEN
                 IF Len(r.Stack2) = 0 THEN StepResult(n, Reject, "", r)
                 ELSE IF s.stackSym # NUL /\ Last(r.Stack2) # s.stackSym
                     THEN StepResult(n, Reject, "", r)
                 ELSE fin(adv([r EXCEPT !.Stack2 = Front(@)]))
             ELSE fin(adv(r))

\* TwoPDAMachine.Run (src/unnamed/part_001, second snapshot): a failed pop
\* rejects, an action outside the five stack actions is an error, and the
\* accept / reject test returns before the head move.
TwoPDARunStep2(st, id, r) ==
    LET s == st[id] IN
    IF ~InBounds(r) THEN StepResult(NilId, Reject, "2PDA head out of bounds", r)
    ELSE LET cur == Cur(r) IN
    IF cur \notin DOMAIN s.next THEN StepResult(NilId, Reject, "", r)
    ELSE LET n == s.next[cur]
             gateOpen == s.stackSym = NUL \/ cur = s.stackSym
             adv(x) == IF cur # Hash THEN [x EXCEPT !.Head = @ + 1] ELSE x
             fin(x) == IF st[n].accept
                       THEN StepResult(n, IF Len(x.Stack) = 0 /\ Len(x.Stack2) = 0
                                          THEN Accept ELSE Reject, "", x)
                       ELSE IF st[n].reject THEN StepResult(n, Reject, "", x)
                       ELSE StepResult(n, Continue, "", adv(x))
         IN  IF s.action = ActPush1 THEN
                 fin(IF gateOpen THEN [r EXCEPT !.Stack = Append(@, s.stackSym)] ELSE r)
             ELSE IF s.action = ActPop1 THEN
                 IF cur = Hash THEN fin(r)
                 ELSE IF Len(r.Stack) = 0 THEN StepResult(n, Reject, "", r)
                 ELSE IF s.stackSym # NUL /\ Last(r.Stack) # s.stackSym
                     THEN StepResult(n, Reject, "", r)
                 ELSE fin([r EXCEPT !.Stack = Front(@)])
             ELSE IF s.action = ActPush2 THEN
                 fin(IF gateOpen THEN [r EXCEPT !.Stack2 = Append(@, s.stackSym)] ELSE r)
             ELSE IF s.action = ActPop2 THEN
                 IF cur = Hash THEN fin(r)
                 ELSE IF Len(r.Stack2) = 0 THEN StepResult(n, Reject, "", r)
                 ELSE IF s.stackSym # NUL /\ Last(r.Stack2) # s.stackSym
                     THEN StepResult(n, Reject, "", r)
                 ELSE fin([r EXCEPT !.Stack2 = Front(@)])
             ELSE IF s.action \in {ActScan, ActNone} THEN fin(r)
             ELSE StepResult(n, Reject, "2PDA: unsupported action", r)

\* TwoPDAMachine.Run (src/unnamed/part_001, third snapshot): a failed pop is
\* an error, and the head moves before the accept / reject test.
TwoPDARunStep3(st, id, r) ==
    LET s == st[id] IN
    IF ~InBounds(r) THEN StepResult(NilId, Reject, "head out of bounds", r)
    ELSE LET cur == Cur(r) IN
    IF cur \notin DOMAIN s.next THEN StepResult(NilId, Reject, "", r)
    ELSE LET n == s.next[cur]
             gateOpen == s.stackSym = NUL \/ cur = s.stackSym
             adv(x) == IF cur # Hash THEN [x EXCEPT !.Head = @ + 1] ELSE x
             fin(x) == IF st[n].accept
                       THEN StepResult(n, IF Len(x.Stack) = 0 /\ Len(x.Stack2) = 0
                                          THEN Accept ELSE Reject, "", x)
                       ELSE IF st[n].reject THEN StepResult(n, Reject, "", x)
                       ELSE StepResult(n, Continue, "", x)
         IN  IF s.action = ActPush1 THEN
                 fin(adv(IF gateOpen THEN [r EXCEPT !.Stack = Append(@, s.stackSym)] ELSE r))
             ELSE IF s.action = ActPop1 /\ cur # Hash THEN
                 IF Len(r.Stack) = 0 THEN StepResult(n, Reject, "2PDA stack1 underflow", r)
                 ELSE IF s.stackSym # NUL /\ Last(r.Stack) # s.stackSym
                     THEN StepResult(n, Reject, "2PDA stack1 unexpected top", r)
                 ELSE fin(adv([r EXCEPT !.Stack = Front(@)]))
             ELSE IF s.action = ActPush2 THEN
                 fin(adv(IF gateOpen THEN [r EXCEPT !.Stack2 = Append(@, s.stackSym)] ELSE r))
             ELSE IF s.action = ActPop2 /\ cur # Hash THEN
                 IF Len(r.Stack2) = 0 THEN StepResult(n, Reject, "2PDA stack2 underflow", r)
                 ELSE IF s.stackSym # NUL /\ Last(r.Stack2) # s.stackSym
                     THEN StepResult(n, Reject, "2PDA stack2 unexpected top", r)
                 ELSE fin(adv([r EXCEPT !.Stack2 = Front(@)]))
             ELSE fin(adv(r))

\* TransducerMachine.Run (src/trans.go); pick as in Step.
TransRunStep(st, id, r, pick) ==
    LET s == st[id] IN
    IF ~InBounds(r) THEN StepResult(NilId, Reject, "head out of bounds", r)
    ELSE LET cur == Cur(r) IN
    IF cur = Hash /\ r.Head = Len(r.Tape) - 1 /\ s.action # ActPrint
    THEN StepResult(id, Accept, "", r)
    ELSE IF s.action = ActPrint THEN
        IF pick = NilId THEN StepResult(NilId, Reject, "print state missing next", r)
        ELSE IF s.printSym = NUL THEN StepResult(NilId, Reject, "print state has no printSym", r)
        ELSE LET r1 == [r EXCEPT !.Output = Append(@, s.printSym)]
             IN  IF st[pick].accept THEN StepResult(pick, Accept, "", r1)
                 ELSE IF st[pick].reject THEN StepResult(pick, Reject, "", r1)
                 ELSE StepResult(pick, Continue, "", r1)
    ELSE IF cur \notin DOMAIN s.next THEN StepResult(NilId, Reject, "", r)
    ELSE LET n == s.next[cur]
             r2 == IF s.action = ActScan /\ cur # Hash THEN [r EXCEPT !.Head = @ + 1] ELSE r
         IN  IF st[n].accept THEN StepResult(n, Accept, "", r2)
             ELSE IF st[n].reject THEN StepResult(n, Reject, "", r2)
             ELSE StepResult(n, Continue, "", r2)

(***************************************************************************)
(* main (src/main.go): the pipeline and the run loop.                      *)
(***************************************************************************)
\* No second run has been started.
NoOther == [pc |-> "none", q |-> NilId, rt |-> NewRuntime(<<>>), steps |-> 0,
            outcome |-> "none", err |-> ""]

\* No step has been taken yet.
NoPrev == [q |-> NilId, rt |-> NewRuntime(<<>>)]

NoFirst == [outcome |-> "none", err |-> "", Tape |-> <<>>, Output |-> <<>>]

\* kind and the rule file are fixed when main starts; the tape argument and
\* the runner are drawn where main first uses them (ParseTapeArg).
InitWith(F, K) ==
    /\ pc = "parse"
    /\ impl = "none"
    /\ kind \in K
    /\ file \in F
    /\ tapeArg = <<>>
    /\ raws = <<>>
    /\ maxID = 0
    /\ states = EmptyMap
    /\ q = NilId
    /\ rt = NewRuntime(<<>>)
    /\ outcome = "none"
    /\ err = ""
    /\ errId = NilId
    /\ steps = 0
    /\ nxt = NilId
    /\ runNo = 1
    /\ first = NoFirst
    /\ prev = NoPrev
    /\ run2 = NoOther

\* main returns after printing an error of a pipeline stage.
Fail_FallThrough(msg, id) ==
    /\ outcome' = "error"
    /\ err' = msg
    /\ errId' = id
    /\ pc' = IF pc = "parse" THEN "build"
             ELSE IF pc = "build" THEN "validate"
             ELSE IF pc = "validate" THEN "tape" ELSE "run"

Fail(msg, id) ==
    /\ outcome' = "error"
    /\ err' = msg
    /\ errId' = id
    /\ pc' = "done"

ParseRules ==
    /\ pc = "parse"
    /\ LET r == parseRules(file)
       IN  IF r.err # ""
           THEN Fail(r.err, NilId) /\ UNCHANGED <<raws, maxID>>
           ELSE /\ raws' = r.lines
                /\ maxID' = r.maxID
                /\ pc' = "build"
                /\ UNCHANGED <<outcome, err, errId>>
    /\ UNCHANGED <<impl, kind, file, tapeArg, states, q, rt, steps, nxt, runNo, first, prev, run2>>

BuildGraph ==
    /\ pc = "build"
    /\ LET b == buildGraph(raws, maxID)
       IN  IF b.err # ""
           THEN Fail(b.err, NilId) /\ UNCHANGED <<states, q>>
           ELSE /\ states' = b.st
                /\ q' = b.start
                /\ pc' = "validate"
                /\ UNCHANGED <<outcome, err, errId>>
    /\ UNCHANGED <<impl, kind, file, tapeArg, raws, maxID, rt, steps, nxt, runNo, first, prev, run2>>

Validate ==
    /\ pc = "validate"
    /\ LET v == validateNoWriteOnHash(states, kind)
       IN  IF v.err # ""
           THEN Fail(v.err, v.id)
           ELSE pc' = "tape" /\ UNCHANGED <<outcome, err, errId>>
    /\ UNCHANGED <<impl, kind, file, tapeArg, raws, maxID, states, q, rt, steps, nxt,
                   runNo, first, prev, run2>>

\* parseTapeArg on the tape argument arg, then the Runtime for the runner i.
ParseTapeArg(arg, i) ==
    /\ pc = "tape"
    /\ tapeArg' = arg
    /\ impl' = i
    /\ LET t == parseTapeArg(arg)
       IN  IF t.err # ""
           THEN Fail(t.err, NilId) /\ UNCHANGED rt
           ELSE /\ rt' = NewRuntime(t.tape)
                /\ pc' = "run"
                /\ UNCHANGED <<outcome, err, errId>>
    /\ UNCHANGED <<kind, file, raws, maxID, states, q, steps, nxt, runNo, first, prev, run2>>

Advance_Marks(res) ==
    /\ rt' = res.rt
    /\ nxt' = res.nxt
    /\ steps' = steps + 1
    /\ IF res.err # "" THEN outcome' = "error" /\ err' = res.err /\ pc' = "done" /\ q' = q
       ELSE IF res.status = Accept
           THEN outcome' = "accept" /\ err' = "" /\ pc' = "done" /\ q' = q
       ELSE IF res.status = Reject
           THEN outcome' = "reject" /\ err' = "" /\ pc' = "done" /\ q' = q
       ELSE outcome' = "none" /\ err' = "" /\ pc' = "run" /\ q' = res.nxt
    /\ prev' = [q |-> q, rt |-> rt]
    /\ states' = [states EXCEPT ![q].reject = TRUE]
    /\ UNCHANGED <<impl, kind, file, tapeArg, raws, maxID, errId, runNo, first, run2>>

\* The body of the run loop after the step: return on an error, on Accept
\* and on Reject, otherwise continue with the successor.
Advance(res) ==
    /\ rt' = res.rt
    /\ nxt' = res.nxt
    /\ steps' = steps + 1
    /\ IF res.err # "" THEN outcome' = "error" /\ err' = res.err /\ pc' = "done" /\ q' = q
       ELSE IF res.status = Accept
           THEN outcome' = "accept" /\ err' = "" /\ pc' = "done" /\ q' = q
       ELSE IF res.status = Reject
           THEN outcome' = "reject" /\ err' = "" /\ pc' = "done" /\ q' = q
       ELSE outcome' = "none" /\ err' = "" /\ pc' = "run" /\ q' = res.nxt
    /\ prev' = [q |-> q, rt |-> rt]
    /\ UNCHANGED <<impl, kind, file, tapeArg, raws, maxID, states, errId, runNo, first, run2>>

Running(i, k) ==
    /\ pc = "run"
    /\ impl = i
    /\ kind = k
    /\ steps < MaxSteps

\* run (src/main.go): one iteration, q.Step(rt) and the status switch.
RunShared ==
    /\ Running("shared", kind)
    /\ \E pick \in PrintChoices(states[q]) : Advance(Step(states, q, rt, kind, pick))

TWARun ==
    /\ Running("machine", KindTWA)
    /\ Advance(TWARunStep(states, q, rt))

TMRun ==
    /\ Running("machine", KindTM)
    /\ Advance(TMRunStep(states, q, rt))

PDARun ==
    /\ Running("machine", KindPDA)
    /\ Advance(PDARunStep(states, q, rt))

TwoPDARun ==
    /\ Running("machine", KindTwoWayPDA)
    /\ Advance(TwoPDARunStep(states, q, rt))

TwoPDARun2 ==
    /\ Running("machine2", KindTwoWayPDA)
    /\ Advance(TwoPDARunStep2(states, q, rt))

TwoPDARun3 ==
    /\ Running("machine3", KindTwoWayPDA)
    /\ Advance(TwoPDARunStep3(states, q, rt))

TransRun ==
    /\ Running("machine", KindTransducer)
    /\ \E pick \in PrintChoices(states[q]) : Advance(TransRunStep(states, q, rt, pick))

Rerun_KeepsOutput ==
    /\ pc = "done"
    /\ runNo = 1
    /\ steps > 0
    /\ first' = [outcome |-> outcome, err |-> err, Tape |-> rt.Tape, Output |-> rt.Output]
    /\ runNo' = 2
    /\ prev' = NoPrev
    /\ rt' = [NewRuntime(parseTapeArg(tapeArg).tape) EXCEPT !.Output = rt.Output]
    /\ q' = StartId
    /\ nxt' = NilId
    /\ steps' = 0
    /\ outcome' = "none"
    /\ err' = ""
    /\ pc' = "run"
    /\ UNCHANGED <<impl, kind, file, tapeArg, raws, maxID, states, errId, run2>>

\* A second run of the same graph on the same tape argument, with a fresh
\* Runtime (Run resets head, stacks and m.output at its start).
Rerun ==
    /\ pc = "done"
    /\ runNo = 1
    /\ steps > 0
    /\ first' = [outcome |-> outcome, err |-> err, Tape |-> rt.Tape, Output |-> rt.Output]
    /\ runNo' = 2
    /\ prev' = NoPrev
    /\ rt' = NewRuntime(parseTapeArg(tapeArg).tape)
    /\ q' = StartId
    /\ nxt' = NilId
    /\ steps' = 0
    /\ outcome' = "none"
    /\ err' = ""
    /\ pc' = "run"
    /\ UNCHANGED <<impl, kind, file, tapeArg, raws, maxID, states, errId, run2>>

Build == ParseRules \/ BuildGraph \/ Validate

(***************************************************************************)
(* Inputs.                                                                 *)
(***************************************************************************)
Impls == {"shared", "machine"}

Wrap(w) == <<Hash>> \o w \o <<Hash>>

\* Tape arguments: every wrapped word over {a, b} up to the bound, and two
\* arguments parseTapeArg refuses.
TapeArgs(n) == {Wrap(w) : w \in SeqsUpTo({"a", "b"}, n)} \cup {<<"a">>, <<Hash, "a">>}

Modes1 == {<<"left">>, <<"right">>, <<"push">>, <<"pop">>, <<"push2">>, <<"pop2">>}
Pairs1 == {<< <<"a", "1">>, <<"#", "2">> >>, << <<"a", "1">>, <<"#", "3">> >>,
           << <<"a", "1">>, <<"b", "2">> >>, << <<"a", "2">> >>,
           << <<"a", "1">>, <<"#", "1">> >>}
Modes2 == {<<"right">>, <<"pop">>, <<"pop2">>, <<"push2">>}
Pairs2 == {<< <<"b", "2">>, <<"#", "3">> >>, << <<"#", "3">> >>,
           << <<"a", "2">>, <<"b", "3">> >>}

Lines1 == {ModeLine("1", w, p) : w \in Modes1, p \in Pairs1}
Lines2 == {ModeLine("2", w, p) : w \in Modes2, p \in Pairs2}
          \cup {PrintLine("2", "x", "3"), PrintLine("2", "x", "1"),
                AcceptLine("2"), RejectLine("2")}
Lines3 == {AcceptLine("3"), RejectLine("3")}

\* Rule files the parser or the builder refuses.
BadFiles == {<<ModeLine("x", <<"right">>, << <<"a", "1">> >>)>>,
             <<ModeLine("1", <<"jump">>, << <<"a", "1">> >>)>>,
             <<ModeLine("1", <<"right">>, << <<"ab", "1">> >>)>>,
             <<ModeLine("2", <<"right">>, << <<"a", "3">> >>), AcceptLine("3")>>,
             <<AcceptLine("0")>>}

Files == {<<l1, l2, l3>> : l1 \in Lines1, l2 \in Lines2, l3 \in Lines3} \cup BadFiles

Init == InitWith(Files, Kinds)

ParseTape == \E arg \in TapeArgs(MaxInterior), i \in Impls : ParseTapeArg(arg, i)

Runs == RunShared \/ TWARun \/ TMRun \/ PDARun \/ TwoPDARun \/ TransRun

Next == Build \/ ParseTape \/ Runs

Spec == Init /\ [][Next]_vars

(***************************************************************************)
(* The a^n b^n rule sets, one-stack PDA, on every wrapped word over {a, b} *)
(* up to MaxWord.  DirectAnBn pushes in state 1 and pops in state 2;       *)
(* OffsetAnBn first consumes one 'a' in a scan state.                      *)
(***************************************************************************)
DirectAnBn ==
    <<ModeLine("1", <<"push">>, << <<"a", "1">>, <<"b", "2">> >>),
      ModeLine("2", <<"pop">>, << <<"b", "2">>, <<"#", "3">> >>),
      AcceptLine("3")>>

OffsetAnBn ==
    <<ModeLine("1", <<"scan">>, << <<"a", "2">> >>),
      ModeLine("2", <<"push">>, << <<"a", "2">>, <<"b", "3">> >>),
      ModeLine("3", <<"pop">>, << <<"b", "3">>, <<"#", "4">> >>),
      AcceptLine("4")>>

WordTapes(n) == {Wrap(w) : w \in SeqsUpTo({"a", "b"}, n)}

InitAnBn == InitWith({DirectAnBn, OffsetAnBn}, {KindPDA})

ParseTapeAnBn == \E arg \in WordTapes(MaxWord), i \in Impls : ParseTapeArg(arg, i)

NextAnBn == Build \/ ParseTapeAnBn \/ RunShared \/ PDARun

SpecAnBn == InitAnBn /\ [][NextAnBn]_vars

(***************************************************************************)
(* The echo transducer: a scan state sends each symbol to a print state    *)
(* that prints it and returns.                                             *)
(***************************************************************************)
EchoRules ==
    <<ModeLine("1", <<"scan">>, << <<"a", "2">>, <<"b", "3">> >>),
      PrintLine("2", "a", "1"),
      PrintLine("3", "b", "1")>>

InitEcho == InitWith({EchoRules}, {KindTransducer})

ParseTapeEcho == \E arg \in WordTapes(MaxEcho), i \in Impls : ParseTapeArg(arg, i)

NextEcho == Build \/ ParseTapeEcho \/ RunShared \/ TransRun

SpecEcho == InitEcho /\ [][NextEcho]_vars

(***************************************************************************)
(* The builder and the validator on every rule file of at most MaxLines    *)
(* lines over BuildLines, where several lines may name the same state.     *)
(***************************************************************************)
BuildLines ==
    {ModeLine(id, w, p) : id \in {"1", "2"},
                          w \in {<<"push">>, <<"push2">>, <<"pop">>, <<"none">>},
                          p \in {<< <<"#", "3">> >>, << <<"a", "1">> >>}}
    \cup {AcceptLine("2"), RejectLine("2"), AcceptLine("3"), PrintLine("2", "x", "1")}

BuildFiles == SeqsUpTo(BuildLines, MaxLines) \ {<<>>}

InitBuild == InitWith(BuildFiles, Kinds)

SpecBuild == InitBuild /\ [][Build]_vars

(***************************************************************************)
(* Two runs of one graph on one tape argument.  TwiceFiles adds rule files *)
(* whose print state has gathered edges besides its '_' edge.              *)
(***************************************************************************)
PrintWithEdges ==
    {<<ModeLine("1", <<"right">>, << <<"a", "2">>, <<"b", "2">> >>),
       ModeLine("2", w, << <<"a", "1">>, <<"b", "3">> >>),
       PrintLine("2", "x", t),
       l3>> : w \in {<<"right">>, <<"push">>}, t \in {"1", "3"},
              l3 \in {AcceptLine("3"), RejectLine("3")}}

TwiceFiles ==
    {f \in Files : Len(f) = 3 /\ f[1].words \in {<<"left">>, <<"push">>}
                              /\ f[3] = AcceptLine("3")}
    \cup PrintWithEdges

InitTwice == InitWith(TwiceFiles, Kinds)

NextTwice == Next \/ Rerun

SpecTwice == InitTwice /\ [][NextTwice]_vars

(***************************************************************************)
(* Two-way-automaton runs without the model's step bound.  The loops of    *)
(* run (src/main.go) and TWAMachine.Run (src/core.go) are `for { ... }`    *)
(* with no cap; their step counter only numbers the trace lines, so it is  *)
(* counted 1..MaxSteps and then starts again at 1.  The rule files only    *)
(* scan, so the configurations of a run are finitely many.                 *)
(***************************************************************************)
Iterate(res) ==
    /\ rt' = res.rt
    /\ nxt' = res.nxt
    /\ steps' = IF steps < MaxSteps THEN steps + 1 ELSE 1
    /\ prev' = [q |-> q, rt |-> rt]
    /\ IF res.err # "" THEN outcome' = "error" /\ err' = res.err /\ pc' = "done" /\ q' = q
       ELSE IF res.status = Accept
           THEN outcome' = "accept" /\ err' = "" /\ pc' = "done" /\ q' = q
       ELSE IF res.status = Reject
           THEN outcome' = "reject" /\ err' = "" /\ pc' = "done" /\ q' = q
       ELSE outcome' = "none" /\ err' = "" /\ pc' = "run" /\ q' = res.nxt
    /\ UNCHANGED <<impl, kind, file, tapeArg, raws, maxID, states, errId, runNo, first, run2>>

RunSharedLoop ==
    /\ pc = "run"
    /\ impl = "shared"
    /\ \E pick \in PrintChoices(states[q]) : Iterate(Step(states, q, rt, kind, pick))

TWARunLoop ==
    /\ pc = "run"
    /\ impl = "machine"
    /\ kind = KindTWA
    /\ Iterate(TWARunStep(states, q, rt))

ScanModes == {<<"left">>, <<"right">>}

\* Rule files of scanning states: those of Files, and files whose states 1
\* and 2 send the head back and forth.
BounceFiles ==
    {<<ModeLine("1", w1, << <<"a", "2">>, <<"#", "1">> >>),
       ModeLine("2", w2, << <<"#", "1">>, <<"a", t>> >>),
       AcceptLine("3")>> : w1 \in ScanModes, w2 \in ScanModes, t \in {"2", "3"}}

LoopFiles ==
    {f \in Files : Len(f) = 3 /\ f[1].words \in ScanModes /\ f[2].words \in ScanModes}
    \cup BounceFiles

InitLoop == InitWith(LoopFiles, {KindTWA})

NextLoop == Build \/ ParseTape \/ RunSharedLoop \/ TWARunLoop

SpecLoop == InitLoop /\ [][NextLoop]_vars /\ WF_vars(NextLoop)

(***************************************************************************)
(* Pushdown and transducer runs without the model's step bound, as in      *)
(* SpecLoop: run, PDAMachine.Run, TwoPDAMachine.Run and                    *)
(* TransducerMachine.Run are `for { ... }` with no cap.  The rule files    *)
(* neither push nor print, so the configurations of a run are finitely     *)
(* many.                                                                   *)
(***************************************************************************)
PDARunLoop ==
    /\ pc = "run"
    /\ impl = "machine"
    /\ kind = KindPDA
    /\ Iterate(PDARunStep(states, q, rt))

TwoPDARunLoop ==
    /\ pc = "run"
    /\ impl = "machine"
    /\ kind = KindTwoWayPDA
    /\ Iterate(TwoPDARunStep(states, q, rt))

TransRunLoop ==
    /\ pc = "run"
    /\ impl = "machine"
    /\ kind = KindTransducer
    /\ \E pick \in PrintChoices(states[q]) : Iterate(TransRunStep(states, q, rt, pick))

HaltFiles ==
    {<<ModeLine("1", w1, p1), ModeLine("2", w2, p2), l3>> :
        w1 \in {<<"right">>, <<"pop">>},
        p1 \in {<< <<"a", "1">>, <<"#", "1">> >>, << <<"a", "1">>, <<"#", "2">> >>,
                << <<"a", "2">>, <<"#", "3">> >>},
        w2 \in {<<"right">>, <<"pop2">>},
        p2 \in {<< <<"#", "3">> >>, << <<"#", "2">> >>, << <<"b", "2">>, <<"#", "1">> >>},
        l3 \in Lines3}

InitHalt == InitWith(HaltFiles, {KindPDA, KindTwoWayPDA, KindTransducer})

NextHalt == Build \/ ParseTape \/ RunSharedLoop \/ PDARunLoop \/ TwoPDARunLoop \/ TransRunLoop

SpecHalt == InitHalt /\ [][NextHalt]_vars /\ WF_vars(NextHalt)

(***************************************************************************)
(* Runs over State tables given directly, as Step and Run receive them:    *)
(* state 1 scans to state 2, state 2 prints, state 3 is terminal.  The     *)
(* print state takes every shape of edge map and print symbol that the     *)
(* print branch tests for, also those no rule file produces.  The runners  *)
(* are the ones with a print branch: the shared stepper for every kind and *)
(* TransducerMachine.Run.                                                  *)
(***************************************************************************)
PrintEdgeMaps ==
    {EmptyMap,
     [c \in {Placeholder} |-> 3],
     [c \in {Placeholder} |-> 1],
     [c \in {"a"} |-> 3],
     [c \in {"a", "b"} |-> IF c = "a" THEN 1 ELSE 3],
     [c \in {Placeholder, "a"} |-> IF c = "a" THEN 1 ELSE 3]}

PrintGraphs ==
    {[id \in {1, 2, 3} |->
        IF id = 1 THEN [NewState(1) EXCEPT !.next = [c \in {"a", "b"} |-> 2]]
        ELSE IF id = 2 THEN [NewState(2) EXCEPT !.action = ActPrint, !.dir = 0,
                                                !.printSym = sym, !.next = edges]
        ELSE [NewState(3) EXCEPT !.accept = acc, !.reject = ~acc]] :
     sym \in {NUL, "x"}, edges \in PrintEdgeMaps, acc \in BOOLEAN}

InitPrint ==
    /\ pc = "tape"
    /\ impl = "none"
    /\ kind \in Kinds
    /\ file = <<>>
    /\ tapeArg = <<>>
    /\ raws = <<>>
    /\ maxID = 3
    /\ states \in PrintGraphs
    /\ q = StartId
    /\ rt = NewRuntime(<<>>)
    /\ outcome = "none"
    /\ err = ""
    /\ errId = NilId
    /\ steps = 0
    /\ nxt = NilId
    /\ runNo = 1
    /\ first = NoFirst
    /\ prev = NoPrev
    /\ run2 = NoOther

PrintRunners == IF kind = KindTransducer THEN Impls ELSE {"shared"}

ParseTapePrint == \E arg \in WordTapes(MaxInterior), i \in PrintRunners : ParseTapeArg(arg, i)

NextPrint == ParseTapePrint \/ RunShared \/ TransRun

SpecPrint == InitPrint /\ [][NextPrint]_vars

(***************************************************************************)
(* Pushdown runs: stack rules for state 1 given by one or two lines (the   *)
(* later line sets the action, a line ending in an open parenthesis has no *)
(* pairs), run by the shared stepper, PDAMachine.Run and the three         *)
(* TwoPDAMachine.Run snapshots.                                            *)
(***************************************************************************)
DanglingLine(id, words) == [ModeLine(id, words, <<>>) EXCEPT !.dangling = TRUE]

StackModes == {<<"push">>, <<"pop">>, <<"push2">>, <<"pop2">>}

PushdownFirst == {<<ModeLine("1", w, p)>> : w \in StackModes,
                    p \in {<< <<"a", "1">>, <<"b", "2">> >>, << <<"a", "2">>, <<"b", "1">> >>}}

PushdownSecond == {<<>>, <<DanglingLine("1", <<"push">>)>>, <<DanglingLine("1", <<"pop2">>)>>,
                   <<ModeLine("1", <<"pop">>, << <<"#", "3">> >>)>>,
                   <<ModeLine("1", <<"push2">>, << <<"b", "1">> >>)>>}

PushdownThird == {<<ModeLine("2", w, p)>> : w \in {<<"pop">>, <<"pop2">>, <<"right">>},
                    p \in {<< <<"b", "2">>, <<"#", "3">> >>, << <<"a", "2">>, <<"b", "3">> >>}}
                 \cup {<<ModeLine("2", <<"push">>, << <<"b", "2">> >>),
                         ModeLine("2", <<"pop">>, << <<"a", "2">>, <<"#", "3">> >>)>>}

PushdownFiles == {f1 \o f2 \o f3 \o <<l>> : f1 \in PushdownFirst, f2 \in PushdownSecond,
                    f3 \in PushdownThird, l \in Lines3}

InitPushdown == InitWith(PushdownFiles, {KindPDA, KindTwoWayPDA})

PushdownRunners == IF kind = KindTwoWayPDA
                   THEN {"shared", "machine", "machine2", "machine3"}
                   ELSE {"shared", "machine"}

ParseTapePushdown ==
    \E arg \in WordTapes(MaxInterior), i \in PushdownRunners : ParseTapeArg(arg, i)

NextPushdown == Build \/ ParseTapePushdown \/ RunShared \/ PDARun
                \/ TwoPDARun \/ TwoPDARun2 \/ TwoPDARun3

SpecPushdown == InitPushdown /\ [][NextPushdown]_vars

(***************************************************************************)
(* Pushdown runs over rule files whose push records name '#': alone such a *)
(* record fails validation; a later record for the same state changes the  *)
(* action and keeps the stack symbol and the edge on '#'.                  *)
(***************************************************************************)
HashFirst == {<<ModeLine("1", w, p)>> : w \in {<<"push">>, <<"push2">>},
                p \in {<< <<"#", "2">>, <<"a", "1">> >>, << <<"a", "1">>, <<"#", "2">> >>,
                       << <<"a", "2">>, <<"b", "1">> >>}}

HashSecond == {<<>>, <<ModeLine("1", <<"pop">>, << <<"a", "2">> >>)>>,
               <<ModeLine("1", <<"right">>, << <<"a", "2">> >>)>>,
               <<DanglingLine("1", <<"push">>)>>, <<DanglingLine("1", <<"push2">>)>>}

HashThird == {<<ModeLine("2", w, p)>> : w \in {<<"push">>, <<"push2">>, <<"pop">>},
                p \in {<< <<"a", "2">>, <<"b", "3">> >>, << <<"b", "2">>, <<"#", "3">> >>}}

HashFiles == {f1 \o f2 \o f3 \o <<l>> : f1 \in HashFirst, f2 \in HashSecond,
                f3 \in HashThird, l \in Lines3}

InitHash == InitWith(HashFiles, {KindPDA, KindTwoWayPDA})

SpecHash == InitHash /\ [][NextPushdown]_vars

(***************************************************************************)
(* The builder on rule files with a start state and two flag lines, which  *)
(* may name the same state.                                                *)
(***************************************************************************)
FlagLines == {AcceptLine("2"), RejectLine("2"), AcceptLine("3"), RejectLine("3")}

FlagFiles == {<<ModeLine("1", w, << <<"a", "2">>, <<"b", "3">> >>), l2, l3>> :
                w \in ScanModes, l2 \in FlagLines, l3 \in FlagLines}

InitFlags == InitWith(FlagFiles, Kinds)

SpecFlags == InitFlags /\ [][Build]_vars

(***************************************************************************)
(* Two runs over one graph whose steps interleave.  Under the shared       *)
(* stepper each run has a Runtime of its own.  Two calls of                *)
(* TransducerMachine.Run on one machine object have their own head and     *)
(* state and share the field m.output: while a call runs, the Output of    *)
(* its record is that field; once it has returned, it is what the call     *)
(* printed as its output.                                                  *)
(***************************************************************************)
\* The position of a run after a step, as run / Run leave it.
After(r2, res) ==
    [pc      |-> IF res.err = "" /\ res.status = Continue THEN "run" ELSE "done",
     q       |-> IF res.err = "" /\ res.status = Continue THEN res.nxt ELSE r2.q,
     rt      |-> res.rt,
     steps   |-> r2.steps + 1,
     outcome |-> IF res.err # "" THEN "error"
                 ELSE IF res.status = Accept THEN "accept"
                 ELSE IF res.status = Reject THEN "reject" ELSE "none",
     err     |-> res.err]

\* The second call starts: a Runtime of its own (shared stepper), or its own
\* locals and m.output = m.output[:0] on the shared field.
StartSecond ==
    /\ pc \in {"run", "done"}
    /\ run2.pc = "none"
    /\ run2' = [pc |-> "run", q |-> StartId, rt |-> NewRuntime(parseTapeArg(tapeArg).tape),
                steps |-> 0, outcome |-> "none", err |-> ""]
    /\ rt' = IF impl = "machine" /\ pc = "run" THEN [rt EXCEPT !.Output = <<>>] ELSE rt
    /\ UNCHANGED <<pc, impl, kind, file, tapeArg, raws, maxID, states, q, outcome, err,
                   errId, steps, nxt, runNo, first, prev>>

\* A step of the second run under the shared stepper.
StepSecondShared ==
    /\ run2.pc = "run"
    /\ impl = "shared"
    /\ run2.steps < MaxSteps
    /\ \E pick \in PrintChoices(states[run2.q]) :
          run2' = After(run2, Step(states, run2.q, run2.rt, kind, pick))
    /\ UNCHANGED <<pc, impl, kind, file, tapeArg, raws, maxID, states, q, rt, outcome, err,
                   errId, steps, nxt, runNo, first, prev>>

\* A step of the second call of TransducerMachine.Run: what it appends to
\* m.output is seen by the first call while that one runs.
StepSecondMachine ==
    /\ run2.pc = "run"
    /\ impl = "machine"
    /\ kind = KindTransducer
    /\ run2.steps < MaxSteps
    /\ \E pick \in PrintChoices(states[run2.q]) :
          LET res == TransRunStep(states, run2.q, run2.rt, pick)
          IN  /\ run2' = After(run2, res)
              /\ rt' = IF pc = "run" THEN [rt EXCEPT !.Output = res.rt.Output] ELSE rt
    /\ UNCHANGED <<pc, impl, kind, file, tapeArg, raws, maxID, states, q, outcome, err,
                   errId, steps, nxt, runNo, first, prev>>

\* A step of the first call of TransducerMachine.Run, seen by the second
\* call while that one runs.
StepFirstMachine ==
    /\ pc = "run"
    /\ impl = "machine"
    /\ kind = KindTransducer
    /\ steps < MaxSteps
    /\ \E pick \in PrintChoices(states[q]) :
          LET res == TransRunStep(states, q, rt, pick)
              a == After([pc |-> pc, q |-> q, rt |-> rt, steps |-> steps,
                          outcome |-> outcome, err |-> err], res)
          IN  /\ pc' = a.pc
              /\ q' = a.q
              /\ rt' = a.rt
              /\ steps' = a.steps
              /\ outcome' = a.outcome
              /\ err' = a.err
              /\ nxt' = res.nxt
              /\ prev' = [q |-> q, rt |-> rt]
              /\ run2' = IF run2.pc = "run"
                         THEN [run2 EXCEPT !.rt.Output = res.rt.Output] ELSE run2
    /\ UNCHANGED <<impl, kind, file, tapeArg, raws, maxID, states, errId, runNo, first>>

\* A run by itself: up to n steps of the runner i from state id and Runtime r.
RECURSIVE RunAlone(_, _, _, _, _, _)
RunAlone(st, id, r, k, i, n) ==
    IF n = 0 THEN [outcome |-> "none", rt |-> r]
    ELSE LET pick == CHOOSE p \in PrintChoices(st[id]) : TRUE
             res == IF i = "shared" THEN Step(st, id, r, k, pick)
                    ELSE TransRunStep(st, id, r, pick)
         IN  IF res.err # "" THEN [outcome |-> "error", rt |-> res.rt]
             ELSE IF res.status = Accept THEN [outcome |-> "accept", rt |-> res.rt]
             ELSE IF res.status = Reject THEN [outcome |-> "reject", rt |-> res.rt]
             ELSE RunAlone(st, res.nxt, res.rt, k, i, n - 1)

\* Rule files of transducers: the echo transducer, one that prints on 'a'
\* only, and one that rejects on 'b'.
PairFiles ==
    {EchoRules,
     <<ModeLine("1", <<"scan">>, << <<"a", "2">>, <<"b", "1">> >>), PrintLine("2", "x", "1")>>,
     <<ModeLine("1", <<"scan">>, << <<"a", "2">>, <<"b", "3">> >>), PrintLine("2", "x", "1"),
       RejectLine("3")>>}

InitPair == InitWith(PairFiles, {KindTransducer})

NextPair == Build \/ ParseTapeEcho \/ RunShared \/ StepFirstMachine
            \/ StartSecond \/ StepSecondShared \/ StepSecondMachine

SpecPair == InitPair /\ [][NextPair]_vars

(***************************************************************************)
(* Properties.                                                             *)
(***************************************************************************)
RunEnded == pc = "done" /\ steps > 0

\* The last step found no edge: at the end of a run that returned from its
\* lookup, q is the state stepped from and rt is the Runtime it saw.
LookupFailed ==
    /\ RunEnded
    /\ nxt = NilId
    /\ InBounds(rt)
    /\ states[q].action # ActPrint
    /\ Cur(rt) \notin DOMAIN states[q].next

\* The transducer's end-of-tape shortcut applies to the last step.
AtShortcut ==
    /\ kind = KindTransducer
    /\ InBounds(rt)
    /\ Cur(rt) = Hash
    /\ rt.Head = Len(rt.Tape) - 1

\* C1: for every kind, a step from a non-print state that has no edge on the
\* symbol under the head (and is past the transducer's end-of-tape shortcut)
\* ends the run with REJECT and without an error.
C1_MissingTransitionRejects ==
    (LookupFailed /\ ~AtShortcut) => (outcome = "reject" /\ err = "")

\* C2: a run never ends in accept or reject with the head outside
\* [0, len(tape)-1]; an excursion ends in the out-of-bounds error.
C2_ResultWithinTape ==
    (RunEnded /\ outcome \in {"accept", "reject"}) => InBounds(rt)

\* An accept-flagged state was entered by the last step of the run.
EnteredAccept ==
    /\ RunEnded
    /\ err = ""
    /\ nxt # NilId
    /\ nxt # q
    /\ states[nxt].accept

\* C3: a one-stack PDA run that enters an accept-flagged state returns ACCEPT
\* only with stack1 empty, and REJECT when stack1 is not empty.
C3_PDAEmptyStackAccept ==
    (kind = KindPDA /\ RunEnded) =>
        /\ outcome = "accept" => Len(rt.Stack) = 0
        /\ (EnteredAccept /\ Len(rt.Stack) > 0) => outcome = "reject"

\* C4: a two-stack PDA run that enters an accept-flagged state returns ACCEPT
\* only with both stacks empty, and REJECT when either is not empty.
C4_TwoPDAEmptyStacksAccept ==
    (kind = KindTwoWayPDA /\ RunEnded) =>
        /\ outcome = "accept" => (Len(rt.Stack) = 0 /\ Len(rt.Stack2) = 0)
        /\ (EnteredAccept /\ (Len(rt.Stack) > 0 \/ Len(rt.Stack2) > 0)) => outcome = "reject"

Interior(t) == SubSeq(t, 2, Len(t) - 1)

AABB == Wrap(<<"a", "a", "b", "b">>)
AAAB == Wrap(<<"a", "a", "a", "b">>)

\* C5 as stated: every rule set that pushes on 'a' and pops on 'b' accepts
\* #aabb# and rejects #aaab#, for the direct and for the offset rule set.
C5_AnyPushPopRuleSet ==
    (RunEnded /\ file \in {DirectAnBn, OffsetAnBn}) =>
        /\ tapeArg = AABB => outcome = "accept"
        /\ tapeArg = AAAB => outcome = "reject"

\* C5: with the offset rule set (one 'a' consumed by a scan state before the
\* push state, because the 'b' read in the push state pops nothing) the PDA
\* run on #aabb# returns ACCEPT with stack1 empty, and on #aaab# returns REJECT
\* with stack1 non-empty when the accept state is entered; with the direct
\* rule set #aabb# is rejected with one 'a' left on stack1.
C5_OffsetRuleSet ==
    /\ (RunEnded /\ file = OffsetAnBn /\ tapeArg = AABB) =>
            (outcome = "accept" /\ err = "" /\ Len(rt.Stack) = 0)
    /\ (RunEnded /\ file = OffsetAnBn /\ tapeArg = AAAB) =>
            (outcome = "reject" /\ err = "" /\ EnteredAccept /\ Len(rt.Stack) > 0)
    /\ (RunEnded /\ file = DirectAnBn /\ tapeArg = AABB) =>
            (outcome = "reject" /\ err = "" /\ rt.Stack = <<"a">>)

C5_Witness ==
    RunEnded /\ file = OffsetAnBn /\ tapeArg = AABB /\ impl = "shared" /\ outcome = "accept"

\* Validation has returned an error / has returned nil.
ValidationFailed == pc = "done" /\ err = ValidationErr
ValidationPassed == pc \in {"tape", "run"} \/ (pc = "done" /\ impl # "none")

PushesOnHash(id) ==
    /\ id \in DOMAIN states
    /\ states[id].action \in {ActPush1, ActPush2}
    /\ Hash \in DOMAIN states[id].next

\* C6: validation fails exactly when the kind is PDA or 2PDA and some state
\* whose final action is Push1 or Push2 has an edge on '#', and the error
\* names such a state; for every other kind it succeeds.
C6_ValidationExact ==
    /\ ValidationFailed =>
            (kind \in {KindPDA, KindTwoWayPDA} /\ PushesOnHash(errId))
    /\ (ValidationPassed /\ kind \in {KindPDA, KindTwoWayPDA}) =>
            ~ \E id \in DOMAIN states : PushesOnHash(id)

\* A state whose first record is not a push and whose last record is.
C6_Witness ==
    /\ ValidationFailed
    /\ errId = 2
    /\ Len(raws) = 2
    /\ raws[1].id = 2 /\ raws[1].action = ActPop1
    /\ raws[2].id = 2 /\ raws[2].action = ActPush2

\* The error messages of the stages that precede the run.
StageErrs == ParseErrs \cup {BuildErr, ValidationErr, TapeErr}

\* C7: the stages run in the order parse, build, validate, tape, run; an
\* error at any stage is reported and ends the program before any step.
C7_PipelineOrder ==
    /\ outcome = "error" => pc = "done"
    /\ err \in StageErrs => (outcome = "error" /\ steps = 0 /\ nxt = NilId)
    /\ pc \in {"build", "validate", "tape", "run"} => parseRules(file).err = ""
    /\ pc \in {"validate", "tape", "run"} => buildGraph(raws, maxID).err = ""
    /\ pc \in {"tape", "run"} => validateNoWriteOnHash(states, kind).err = ""
    /\ (pc = "run" \/ steps > 0) =>
            /\ parseRules(file).err = ""
            /\ buildGraph(raws, maxID).err = ""
            /\ validateNoWriteOnHash(states, kind).err = ""
            /\ parseTapeArg(tapeArg).err = ""

C7_Witness ==
    pc = "done" /\ outcome = "error" /\ err = TapeErr /\ steps = 0

\* The builder has returned without / with its error.
BuilderSucceeded ==
    pc \in {"validate", "tape", "run"} \/ (pc = "done" /\ err \notin ParseErrs \cup {BuildErr})
BuilderFailed == pc = "done" /\ err = BuildErr

MentionsStart ==
    \E i \in 1..Len(raws) :
        \/ raws[i].id = 1
        \/ \E j \in 1..Len(raws[i].pairs) : Atoi(raws[i].pairs[j][2]).v = 1

C9_Deterministic ==
    (runNo = 2 /\ pc = "done") =>
        first = [outcome |-> outcome, err |-> err, Tape |-> rt.Tape, Output |-> rt.Output]

\* Both runs went through a print state that has edges besides '_'.
C9_Witness ==
    /\ runNo = 2 /\ pc = "done"
    /\ file \in PrintWithEdges
    /\ outcome = "accept"
    /\ rt.Output # <<>>

\* C10: the echo transducer run on a wrapped tape returns ACCEPT and its
\* output is the tape without the two '#' delimiters.
C10_EchoOutput ==
    RunEnded => (outcome = "accept" /\ err = "" /\ rt.Output = Interior(tapeArg))

C10_Witness ==
    RunEnded /\ outcome = "accept" /\ rt.Output = <<"a", "b", "b">>

\* C11: every two-way-automaton run ends after finitely many steps: a run
\* that reaches no terminal state, no missing transition and no error is
\* ended by the step cap.
C11_TWARunEnds == <>(pc = "done")

\* The last step started in a print state / a print state whose successor
\* cannot be resolved.
FromPrint == steps > 0 /\ prev.q \in DOMAIN states /\ states[prev.q].action = ActPrint

PrintUnresolved ==
    /\ FromPrint
    /\ Placeholder \notin DOMAIN states[prev.q].next
    /\ Cardinality(DOMAIN states[prev.q].next) # 1

\* C12: a run ends in exactly one of accept, reject and error, and a step
\* from a print state with no resolvable successor ('_' edge absent and not
\* exactly one edge) or with no print symbol ends the run with an error, not
\* a reject, and leaves output, tape, head and stacks as they were.
C12_PrintFailureIsError ==
    /\ pc = "run" => outcome = "none"
    /\ RunEnded => /\ outcome \in {"accept", "reject", "error"}
                   /\ outcome = "error" <=> err # ""
    /\ (FromPrint /\ (PrintUnresolved \/ states[prev.q].printSym = NUL)) =>
            /\ pc = "done"
            /\ outcome = "error"
            /\ err # ""
            /\ rt = prev.rt

\* A print state with two edges and no '_' edge, and a print symbol.
C12_Witness ==
    /\ PrintUnresolved
    /\ Cardinality(DOMAIN states[prev.q].next) = 2
    /\ states[prev.q].printSym # NUL
    /\ kind = KindTransducer
    /\ impl = "machine"
    /\ outcome = "error"

\* The last step went through the print branch (the runners that have one).
PrintStep == FromPrint /\ (impl = "shared" \/ kind = KindTransducer)

\* The last step ended at the transducer's end-of-tape shortcut.
ShortcutStep ==
    /\ steps > 0
    /\ kind = KindTransducer
    /\ InBounds(prev.rt)
    /\ Cur(prev.rt) = Hash
    /\ prev.rt.Head = Len(prev.rt.Tape) - 1
    /\ states[prev.q].action # ActPrint

\* The last step looked up the symbol under the head and found an edge.
LookupStep ==
    /\ steps > 0
    /\ prev.q \in DOMAIN states
    /\ InBounds(prev.rt)
    /\ ~PrintStep
    /\ ~ShortcutStep
    /\ Cur(prev.rt) \in DOMAIN states[prev.q].next

\* The errors with which the action switch leaves a step early.
StackErrs == {"stack1 underflow", "stack1 unexpected top",
              "stack2 underflow", "stack2 unexpected top"}

\* C13: in two-way-automaton and Turing-machine runs every step that takes a
\* transition moves the head exactly one cell, left or right as configured on
\* the successor state, also when the symbol read is '#' and when the
\* successor is terminal.
C13_HeadFollowsSuccessor ==
    (kind \in {KindTWA, KindTM} /\ LookupStep /\ err \notin StackErrs) =>
        /\ nxt = states[prev.q].next[Cur(prev.rt)]
        /\ rt.Head - prev.rt.Head \in {-1, 1}
        /\ states[nxt].dir = L => rt.Head = prev.rt.Head - 1
        /\ states[nxt].dir = R => rt.Head = prev.rt.Head + 1

\* The runner of this run executes stack action a: the shared stepper
\* executes every action, PDAMachine.Run the two of the first stack, the
\* TwoPDAMachine.Run snapshots all four, the other Run methods none.
Executes(a) ==
    \/ impl = "shared"
    \/ kind = KindPDA /\ a \in {ActPush1, ActPop1}
    \/ kind = KindTwoWayPDA /\ a \in {ActPush1, ActPop1, ActPush2, ActPop2}

StackOf(r, a) == IF a \in {ActPush1, ActPop1} THEN r.Stack ELSE r.Stack2

\* The last step looked up a successor in a pop state and went on to the pop
\* (a pushdown kind skips the pop on '#').
PopStep ==
    /\ LookupStep
    /\ states[prev.q].action \in {ActPop1, ActPop2}
    /\ Executes(states[prev.q].action)
    /\ ~(kind \in {KindPDA, KindTwoWayPDA} /\ Cur(prev.rt) = Hash)

PopUnderflow == PopStep /\ Len(StackOf(prev.rt, states[prev.q].action)) = 0

PopMismatch ==
    /\ PopStep
    /\ ~PopUnderflow
    /\ states[prev.q].stackSym # NUL
    /\ Last(StackOf(prev.rt, states[prev.q].action)) # states[prev.q].stackSym

\* C14: in a PDA or two-way-PDA run a step that takes a transition (its
\* lookup succeeds and no pop fails) advances the head by one cell when the
\* symbol read is not '#' and leaves it in place when the symbol read is '#',
\* and no step decreases the head.
C14_PushdownHeadAdvance ==
    (kind \in {KindPDA, KindTwoWayPDA} /\ steps > 0) =>
        /\ rt.Head >= prev.rt.Head
        /\ (LookupStep /\ ~PopUnderflow /\ ~PopMismatch) =>
              rt.Head = prev.rt.Head + (IF Cur(prev.rt) # Hash THEN 1 ELSE 0)

\* The last step reached the transducer's head move from a scanning state
\* with a symbol other than '#' under the head.
ScanMove ==
    /\ LookupStep
    /\ states[prev.q].action = ActScan
    /\ Cur(prev.rt) # Hash

\* C15: in a transducer run a step moves the head one cell to the right
\* exactly when it takes a transition from a state whose action is the
\* scanning action with a symbol other than '#' under the head; every other
\* transducer step (print, the end shortcut, a stack action, a read of '#',
\* a missing transition) leaves the head where it is.
C15_TransducerHeadAdvance ==
    (kind = KindTransducer /\ steps > 0) =>
        rt.Head = prev.rt.Head + (IF ScanMove THEN 1 ELSE 0)

C15_Witness ==
    /\ kind = KindTransducer
    /\ ScanMove
    /\ rt.Head = prev.rt.Head + 1
    /\ pc = "run"

\* The last step began on the last cell of the tape, holding '#', in a state
\* whose action is not print.
EndStep ==
    /\ steps > 0
    /\ prev.q \in DOMAIN states
    /\ InBounds(prev.rt)
    /\ Cur(prev.rt) = Hash
    /\ prev.rt.Head = Len(prev.rt.Tape) - 1
    /\ states[prev.q].action # ActPrint

\* C16: a transducer step that begins on the last cell of the tape, holding
\* '#', in a state whose action is not print ends the run with ACCEPT whatever
\* the state's edges are, and leaves output, tape, head and stacks as they
\* were; under every other kind the same step goes through the lookup: it
\* accepts only by an edge on '#' into an accept state and does not accept
\* when the state has no edge on '#'.
C16_ShortcutTransducerOnly ==
    /\ (EndStep /\ kind = KindTransducer) =>
          pc = "done" /\ outcome = "accept" /\ err = "" /\ rt = prev.rt
    /\ (EndStep /\ kind # KindTransducer) =>
          /\ Hash \notin DOMAIN states[prev.q].next => pc = "done" /\ outcome # "accept"
          /\ Hash \in DOMAIN states[prev.q].next =>
                /\ nxt = states[prev.q].next[Hash]
                /\ outcome = "accept" => states[nxt].accept

C16_Witness ==
    /\ EndStep
    /\ kind = KindTransducer
    /\ impl = "machine"
    /\ Hash \in DOMAIN states[prev.q].next
    /\ states[states[prev.q].next[Hash]].reject
    /\ outcome = "accept"

\* The last step went through a print branch that resolved a successor and
\* found a print symbol.
PrintSucceeded ==
    /\ PrintStep
    /\ InBounds(prev.rt)
    /\ ~PrintUnresolved
    /\ states[prev.q].printSym # NUL

\* C17: a print step that succeeds appends the state's print symbol, and
\* nothing else, to the output, and leaves the head, the tape and both stacks
\* as they were; a step that does not go through the print branch leaves the
\* output as it was.
C17_PrintAppendsOnly ==
    /\ PrintSucceeded =>
          /\ err = ""
          /\ rt = [prev.rt EXCEPT !.Output = Append(@, states[prev.q].printSym)]
    /\ (steps > 0 /\ ~PrintStep) => rt.Output = prev.rt.Output

C17_Witness ==
    /\ PrintSucceeded
    /\ Len(prev.rt.Output) > 0
    /\ Len(prev.rt.Stack) > 0
    /\ rt.Output = Append(prev.rt.Output, states[prev.q].printSym)
    /\ rt.Stack = prev.rt.Stack

\* The push records of state id that carry pairs, by position in the file.
PushRecords(id) ==
    {i \in 1..Len(raws) : /\ raws[i].id = id
                          /\ raws[i].action \in {ActPush1, ActPush2}
                          /\ Len(raws[i].pairs) > 0}

\* The gate symbol of state id: the symbol of the first pair of its push
\* record (the last one, when the file has several), none without one.
GateOf(id) ==
    IF PushRecords(id) = {} THEN NUL
    ELSE LET i == CHOOSE x \in PushRecords(id) : \A y \in PushRecords(id) : y <= x
         IN  raws[i].pairs[1][1]

\* The last step took a transition from a push state under a runner that has
\* the stack the state pushes on.
PushStep ==
    /\ LookupStep
    /\ states[prev.q].action \in {ActPush1, ActPush2}
    /\ Executes(states[prev.q].action)

GateOpen == GateOf(prev.q) = NUL \/ Cur(prev.rt) = GateOf(prev.q)

\* C18: the gate symbol of a push state is the symbol of the first pair of
\* its push record; a step from a Push1 (Push2) state appends that symbol to
\* stack1 (stack2) exactly when the state has no gate or the symbol read is
\* the gate, leaves the other stack as it was, and when the gate is closed
\* takes the transition with both stacks unchanged.
C18_GatedPush ==
    PushStep =>
        LET a == states[prev.q].action
            other == IF a = ActPush1 THEN ActPush2 ELSE ActPush1
        IN  /\ states[prev.q].stackSym = GateOf(prev.q)
            /\ nxt = states[prev.q].next[Cur(prev.rt)]
            /\ StackOf(rt, other) = StackOf(prev.rt, other)
            /\ StackOf(rt, a) = IF GateOpen
                                THEN Append(StackOf(prev.rt, a), states[prev.q].stackSym)
                                ELSE StackOf(prev.rt, a)

C18_Witness ==
    /\ PushStep
    /\ ~GateOpen
    /\ Len(prev.rt.Stack) + Len(prev.rt.Stack2) > 0
    /\ rt.Stack = prev.rt.Stack
    /\ rt.Stack2 = prev.rt.Stack2
    /\ pc = "run"
    /\ q = states[prev.q].next[Cur(prev.rt)]

\* The errors a failed pop ends a run with, under any runner.
PopErrs == StackErrs \cup {"2PDA stack1 underflow", "2PDA stack1 unexpected top",
                           "2PDA stack2 underflow", "2PDA stack2 unexpected top"}

\* The last step took a transition from a pop state with '#' under the head.
PopOnHash ==
    /\ LookupStep
    /\ states[prev.q].action \in {ActPop1, ActPop2}
    /\ Cur(prev.rt) = Hash

\* C19: under every kind a step from a Pop1 or Pop2 state that reads '#'
\* leaves both stacks as they were and does not end in an underflow or
\* mismatch.
C19_PopSkipsOnBoundary ==
    PopOnHash =>
        /\ rt.Stack = prev.rt.Stack
        /\ rt.Stack2 = prev.rt.Stack2
        /\ err \notin PopErrs

\* C20: in a PDA or two-way-PDA run a step from a Pop1 (Pop2) state on a
\* symbol other than '#' removes exactly the top of stack1 (stack2) when that
\* stack is not empty; when it is empty the run ends with REJECT, without an
\* error, and both stacks stay as they were.
C20_PopOrReject ==
    (kind \in {KindPDA, KindTwoWayPDA} /\ PopStep) =>
        LET a == states[prev.q].action
            other == IF a = ActPop1 THEN ActPop2 ELSE ActPop1
        IN  /\ StackOf(rt, other) = StackOf(prev.rt, other)
            /\ IF PopUnderflow
               THEN /\ pc = "done"
                    /\ outcome = "reject"
                    /\ err = ""
                    /\ StackOf(rt, a) = StackOf(prev.rt, a)
               ELSE StackOf(rt, a) = Front(StackOf(prev.rt, a))

\* C21: stack operations reach only the storage the kind declares: in TWA, TM
\* and transducer runs both stacks stay empty, and in one-stack pushdown runs
\* stack2 stays empty, whatever the actions of the states.
C21_UndeclaredStacksEmpty ==
    /\ kind \in {KindTWA, KindTM, KindTransducer} => rt.Stack = <<>> /\ rt.Stack2 = <<>>
    /\ kind = KindPDA => rt.Stack2 = <<>>

\* The symbols held by either stack.
StackSyms(r) == {r.Stack[i] : i \in 1..Len(r.Stack)} \cup {r.Stack2[i] : i \in 1..Len(r.Stack2)}

\* C22: in a PDA or 2PDA run (a run starts only after validation passed)
\* neither stack ever holds '#', also for rule files with several records
\* for one state id.
C22_NoHashOnStack ==
    (kind \in {KindPDA, KindTwoWayPDA} /\ pc \in {"run", "done"}) => Hash \notin StackSyms(rt)

\* A validated graph keeps a state whose stack symbol is '#' and which has an
\* edge on '#' (its push record was followed by a record with another
\* action), and a step of the run has pushed.
C22_Witness ==
    /\ kind \in {KindPDA, KindTwoWayPDA}
    /\ PushStep
    /\ \E id \in DOMAIN states : states[id].stackSym = Hash /\ Hash \in DOMAIN states[id].next
    /\ StackSyms(rt) # {}

\* C23: no state of a graph the builder returned has both its accept flag and
\* its reject flag set, also when the records mark one id once as accept and
\* once as reject.
C23_FlagsExclusive ==
    BuilderSucceeded => \A id \in DOMAIN states : ~(states[id].accept /\ states[id].reject)

\* C24: every one-stack pushdown, two-stack pushdown and transducer run on a
\* graph built from a rule file and a '#'-wrapped tape ends, in accept, reject
\* or error, with no step cap in the loop.
C24_BoundedRunsEnd == <>(pc = "done")

\* The last step took a transition and went through its side effect.
EffectStep == LookupStep /\ ~PopUnderflow /\ ~PopMismatch

\* The stacks the acceptance test of the kind looks at are empty.
AcceptStacksEmpty ==
    /\ Len(rt.Stack) = 0
    /\ kind = KindTwoWayPDA => Len(rt.Stack2) = 0

\* C25: within one step of a pushdown run the side effect of the current
\* state is applied first, then the head is moved, and then the successor's
\* terminal flags are evaluated: a successful pop has removed the top, the
\* head has moved also on the step that enters a terminal state, and the
\* entry into an accept state is judged on the stacks as the step left them.
C25_EffectMoveFlags ==
    (kind \in {KindPDA, KindTwoWayPDA} /\ EffectStep) =>
        /\ nxt = states[prev.q].next[Cur(prev.rt)]
        /\ PopStep => StackOf(rt, states[prev.q].action)
                        = Front(StackOf(prev.rt, states[prev.q].action))
        /\ rt.Head = prev.rt.Head + (IF Cur(prev.rt) # Hash THEN 1 ELSE 0)
        /\ states[nxt].accept =>
              pc = "done" /\ outcome = (IF AcceptStacksEmpty THEN "accept" ELSE "reject")
        /\ (~states[nxt].accept /\ states[nxt].reject) => pc = "done" /\ outcome = "reject"
        /\ (~states[nxt].accept /\ ~states[nxt].reject) => pc = "run" /\ q = nxt

\* C26: no step of a run modifies the transition graph: after any number of
\* steps of any number of runs every state has the id, direction, action,
\* action parameters, terminal flags and edge map the builder gave it.
C26_GraphReadOnly ==
    BuilderSucceeded => states = buildGraph(raws, maxID).st

\* The second run over a graph has ended after steps that wrote the output
\* or a stack.
C26_Witness ==
    /\ runNo = 2
    /\ pc = "done"
    /\ steps > 1
    /\ Len(rt.Output) + Len(rt.Stack) + Len(rt.Stack2) > 0
    /\ states = buildGraph(raws, maxID).st

\* What the run of the graph on the tape argument ends with when it runs by
\* itself.
Alone == RunAlone(states, StartId, NewRuntime(parseTapeArg(tapeArg).tape), kind, impl, MaxSteps)

Ended(r2) == r2.pc = "done" /\ r2.steps > 0

\* C27: of two runs over one graph (or one machine object) whose steps are
\* interleaved, each ends with the outcome, the tape and the output sequence
\* it ends with when run by itself.
C27_InterleavedRunsIndependent ==
    /\ (run2.pc # "none" /\ pc = "done" /\ steps > 0) =>
          /\ outcome = Alone.outcome
          /\ rt.Tape = Alone.rt.Tape
          /\ rt.Output = Alone.rt.Output
    /\ Ended(run2) =>
          /\ run2.outcome = Alone.outcome
          /\ run2.rt.Tape = Alone.rt.Tape
          /\ run2.rt.Output = Alone.rt.Output

\* C28: when a transducer is run again after a run has ended, the new run
\* starts in the start state with the head on index 1 and an empty output,
\* its output never holds more symbols than it has taken steps, and it ends
\* with the output of a run by itself: nothing of the earlier run is in it.
C28_SequentialRunsFresh ==
    (kind = KindTransducer /\ runNo = 2) =>
        /\ steps = 0 => q = StartId /\ rt.Head = 1 /\ rt.Output = <<>>
        /\ Len(rt.Output) <= steps
        /\ (pc = "done" /\ outcome # "none") =>
              outcome = Alone.outcome /\ rt.Output = Alone.rt.Output

C28_Witness ==
    /\ kind = KindTransducer
    /\ impl = "machine"
    /\ runNo = 2
    /\ pc = "done"
    /\ Len(first.Output) > 0
    /\ rt.Output = first.Output

\* The trace line of the last step: run (src/main.go) reads the symbol to
\* report from the Runtime after q.Step has returned; the Machine.Run methods
\* report the symbol they looked the successor up with.
traceRead == IF impl = "shared" THEN rt.Tape[rt.Head + 1] ELSE Cur(prev.rt)

traceEvent == [stateId |-> prev.q, symbolRead |-> traceRead, successorId |-> nxt]

\* The last step took a transition and its trace line was printed: run
\* returns before the line when the step gave an error, a Run method that
\* prints after the action switch returns before it when a pop fails.
TracedStep == LookupStep /\ err = "" /\ ~PopUnderflow /\ ~PopMismatch

\* C29: for every step that takes a transition the trace line names the
\* state stepped from, the symbol that was under the head when the step began
\* (the one the successor was looked up with) and the successor.
C29_TraceReportsSymbolRead ==
    TracedStep =>
        /\ traceEvent.stateId = prev.q
        /\ traceEvent.symbolRead = Cur(prev.rt)
        /\ traceEvent.successorId = states[prev.q].next[Cur(prev.rt)]

(***************************************************************************)
(* Mode parsing on every mode of at most MaxModeWords words over           *)
(* ModeTokens: one line "1] <mode> (a,1)" per rule file.                   *)
(***************************************************************************)
MaxModeWords == 3

ModeTokens == {"left", "l", "right", "r", "scan", "none", "push", "pop2", "go"}

ModeFiles == {<<ModeLine("1", w, << <<"a", "1">> >>)>> : w \in SeqsUpTo(ModeTokens, MaxModeWords)}

InitMode == InitWith(ModeFiles, Kinds)

SpecMode == InitMode /\ [][Build]_vars

\* The mode of the one line of the file, and what parseRules made of it.
ModeWords == file[1].words
ModeParsed == pc # "parse" /\ raws # <<>>
ModeRefused == pc = "done" /\ raws = <<>> /\ outcome = "error" /\ err = "bad mode"
ModeIs(a, d) == ModeParsed /\ raws[1].action = a /\ raws[1].dir = d

DirOf(w) == IF w \in {"left", "l"} THEN L ELSE R
IsDirWord(w) == w \in {"left", "l", "right", "r"}
IsActionWord(w) == parseActionWord(w).ok

\* C30: a lone direction word gives that direction with action scan, a lone
\* action word that action with direction right, two words give (action,
\* direction) only as an action word followed by a direction word; every
\* other mode, the empty one included, is an error.
C30_ModeParsing ==
    pc # "parse" =>
        IF Len(ModeWords) = 1 /\ IsDirWord(ModeWords[1])
        THEN ModeIs(ActScan, DirOf(ModeWords[1]))
        ELSE IF Len(ModeWords) = 1 /\ IsActionWord(ModeWords[1])
        THEN ModeIs(parseActionWord(ModeWords[1]).a, R)
        ELSE IF Len(ModeWords) = 2 /\ IsActionWord(ModeWords[1]) /\ IsDirWord(ModeWords[2])
        THEN ModeIs(parseActionWord(ModeWords[1]).a, DirOf(ModeWords[2]))
        ELSE ModeRefused

(***************************************************************************)
(* runTrace (src/unnamed/part_003), the tracing runner of the a/b two-way  *)
(* automaton.  Its State has one successor per symbol (onA, onB, onHash);  *)
(* its tape is the interior without the '#' delimiters and its index i     *)
(* starts at 0 and reads '#' wherever it is outside the tape.  rt.Tape is  *)
(* that interior, rt.Head is i, steps is the loop variable step.           *)
(***************************************************************************)
stepCap == 4

CapErr == "step cap exceeded"

LegacyState(d, a, b, h, acc, rej) ==
    [dir |-> d, onA |-> a, onB |-> b, onHash |-> h, accept |-> acc, reject |-> rej]

LegacyFlags == {<<FALSE, FALSE>>, <<TRUE, FALSE>>, <<FALSE, TRUE>>}

LegacyGraphs ==
    {[id \in 1..3 |->
        IF id = 1 THEN LegacyState(d1, a1, b1, h1, f1[1], f1[2])
        ELSE IF id = 2 THEN LegacyState(d2, a2, 3, h2, f2, FALSE)
        ELSE LegacyState(R, NilId, NilId, NilId, acc3, ~acc3)] :
     d1 \in {L, R}, a1 \in {NilId, 1, 2}, b1 \in {NilId, 2}, h1 \in {NilId, 1, 2},
     f1 \in LegacyFlags,
     d2 \in {L, R}, a2 \in {NilId, 1, 3}, h2 \in {1, 3}, f2 \in BOOLEAN,
     acc3 \in BOOLEAN}

LegacyTapes == SeqsUpTo({"a", "b"}, MaxInterior) \cup {<<"c">>}

\* The body of one iteration of the loop on state id and index i.
runTraceStep(st, id, tape, i) ==
    LET s == st[id]
        inside == i >= 0 /\ i < Len(tape)
        read == IF inside THEN tape[i + 1] ELSE Hash
        n == IF ~inside THEN s.onHash
             ELSE IF read = "a" THEN s.onA
             ELSE IF read = "b" THEN s.onB ELSE NilId
    IN  IF s.accept THEN [ret |-> "accept", err |-> "", q |-> id, i |-> i]
        ELSE IF s.reject THEN [ret |-> "reject", err |-> "", q |-> id, i |-> i]
        ELSE IF inside /\ read \notin {"a", "b"}
            THEN [ret |-> "error", err |-> "invalid symbol", q |-> id, i |-> i]
        ELSE IF n = NilId
            THEN [ret |-> "error", err |-> "missing transition", q |-> id, i |-> i]
        ELSE [ret |-> "none", err |-> "", q |-> n, i |-> IF s.dir = L THEN i - 1 ELSE i + 1]

InitLegacy ==
    /\ pc = "run"
    /\ impl = "legacy"
    /\ kind = KindTWA
    /\ file = <<>>
    /\ tapeArg = <<>>
    /\ raws = <<>>
    /\ maxID = 3
    /\ states \in LegacyGraphs
    /\ q = StartId
    /\ \E t \in LegacyTapes : rt = [NewRuntime(t) EXCEPT !.Head = 0]
    /\ outcome = "none"
    /\ err = ""
    /\ errId = NilId
    /\ steps = 0
    /\ nxt = NilId
    /\ runNo = 1
    /\ first = NoFirst
    /\ prev = NoPrev
    /\ run2 = NoOther

\* One iteration: `step < stepCap` held.
RunTraceIterate ==
    /\ pc = "run"
    /\ impl = "legacy"
    /\ steps < stepCap
    /\ LET r == runTraceStep(states, q, rt.Tape, rt.Head)
       IN  /\ q' = r.q
           /\ rt' = [rt EXCEPT !.Head = r.i]
           /\ outcome' = r.ret
           /\ err' = r.err
           /\ pc' = IF r.ret = "none" THEN "run" ELSE "done"
           /\ steps' = IF r.ret = "none" THEN steps + 1 ELSE steps
           /\ nxt' = IF r.ret = "none" THEN r.q ELSE nxt
    /\ prev' = [q |-> q, rt |-> rt]
    /\ UNCHANGED <<impl, kind, file, tapeArg, raws, maxID, states, errId, runNo, first, run2>>

\* The loop condition failed: the return after the loop.
RunTraceCap ==
    /\ pc = "run"
    /\ impl = "legacy"
    /\ steps >= stepCap
    /\ outcome' = "error"
    /\ err' = CapErr
    /\ pc' = "done"
    /\ UNCHANGED <<impl, kind, file, tapeArg, raws, maxID, states, q, rt, errId, steps,
                   nxt, runNo, first, prev, run2>>

NextLegacy == RunTraceIterate \/ RunTraceCap

SpecLegacy == InitLegacy /\ [][NextLegacy]_vars

LegacyFlagged(st, id) == st[id].accept \/ st[id].reject

\* A flagged state, an invalid symbol or a missing transition is reached
\* within n iterations that start in state id at index i: the state is
\* flagged, or an iteration fails, or an iteration leads to such a state.
RECURSIVE HaltReached(_, _, _, _, _)
HaltReached(st, id, tape, i, n) ==
    IF LegacyFlagged(st, id) THEN TRUE
    ELSE IF n = 0 THEN FALSE
    ELSE LET r == runTraceStep(st, id, tape, i)
         IN  r.err # "" \/ HaltReached(st, r.q, tape, r.i, n - 1)

\* C31: the loop of runTrace makes at most stepCap iterations, returns
\* accept or reject when the current state is flagged (the start state
\* included), and returns the step-cap error exactly when no flagged state,
\* invalid symbol or missing transition is reached within stepCap iterations.
C31_StepCapExact ==
    /\ impl = "legacy" => steps <= stepCap
    /\ (impl = "legacy" /\ pc = "done") =>
        /\ outcome = "accept" => states[q].accept
        /\ outcome = "reject" => (states[q].reject /\ ~states[q].accept)
        /\ err = CapErr <=> ~HaltReached(states, StartId, rt.Tape, 0, stepCap)

(***************************************************************************)
(* Rule files whose modes are written with hyphens, "write-tape" among     *)
(* them, run under every kind and every runner.                            *)
(***************************************************************************)
WriteModes == {<<"write-tape">>, <<"write-tape", "right">>, <<"scan-left">>,
               <<"scan-right">>, <<"write">>, <<"right">>}

WriteFiles ==
    {<<ModeLine("1", w1, p1), ModeLine("2", w2, << <<"b", "2">>, <<"a", "1">>, <<"#", "3">> >>), l3>> :
        w1 \in WriteModes, w2 \in WriteModes,
        p1 \in {<< <<"a", "1">>, <<"b", "2">>, <<"#", "3">> >>, << <<"a", "2">>, <<"#", "3">> >>},
        l3 \in Lines3}

InitWrite == InitWith(WriteFiles, Kinds)

SpecWrite == InitWrite /\ [][Next]_vars

\* C32: no run on a graph built from a rule file changes the tape: no mode
\* gives a rawLine or a State the WriteTape action, no State has a write
\* symbol, and the tape of the Runtime is at every step the tape the run
\* began with, for the Turing machine as for every other kind.
C32_TapeNeverWritten ==
    /\ \A i \in 1..Len(raws) : raws[i].action # ActWriteTape
    /\ \A id \in DOMAIN states :
           states[id].action # ActWriteTape /\ states[id].writeSym = NUL
    /\ (pc \in {"run", "done"} /\ steps > 0) => rt.Tape = parseTapeArg(tapeArg).tape

C32_Witness ==
    /\ kind = KindTM
    /\ pc = "done"
    /\ steps >= 3
    /\ outcome = "accept"
    /\ file[1].words = <<"scan-left">>
    /\ rt.Tape = parseTapeArg(tapeArg).tape

MismatchErrs == {e \in PopErrs : e \notin {"stack1 underflow", "stack2 underflow",
                                          "2PDA stack1 underflow", "2PDA stack2 underflow"}}

PopStates == {id \in DOMAIN states : states[id].action \in {ActPop1, ActPop2}}

\* C33: on a graph built from a rule file no pop state carries a gate
\* symbol, so no pop fails because the top of the stack differs from it: a
\* pop on a symbol other than '#' fails only on an empty stack.
C33_PopFailsOnlyOnEmptyStack ==
    BuilderSucceeded =>
        /\ \A id \in PopStates : states[id].stackSym = NUL
        /\ ~PopMismatch
        /\ err \notin MismatchErrs

(***************************************************************************)
(* Rule files whose start state is also given an accept or a reject line.  *)
(***************************************************************************)
StartFirst ==
    {ModeLine("1", w, p) : w \in {<<"right">>, <<"left">>, <<"push">>, <<"pop">>},
                           p \in {<< <<"a", "1">>, <<"#", "3">> >>,
                                  << <<"a", "2">>, <<"#", "3">> >>,
                                  << <<"b", "2">> >>}}
    \cup {PrintLine("1", "x", "2")}

StartFiles ==
    {<<l1, f1, ModeLine("2", <<"right">>, << <<"a", "1">>, <<"#", "3">> >>), l3>> :
        l1 \in StartFirst, f1 \in {AcceptLine("1"), RejectLine("1")}, l3 \in Lines3}

InitStart == InitWith(StartFiles, Kinds)

SpecStart == InitStart /\ [][Next]_vars

StartFlagged == StartId \in DOMAIN states /\ (states[StartId].accept \/ states[StartId].reject)

\* The run has taken its first step and no other.
FirstStepTaken == runNo = 1 /\ steps = 1 /\ pc \in {"run", "done"}

\* The last step evaluated s.next[cur] for the symbol under the head.
LookupTried == steps > 0 /\ InBounds(prev.rt) /\ ~PrintStep /\ ~ShortcutStep

\* C34: the flags of the start state are not consulted when a run begins:
\* with state 1 accept- or reject-flagged the first step still looks up the
\* successor of state 1 on the symbol at index 1, and the run accepts or
\* rejects on a flag only of a state that a transition has entered.
C34_StartFlagsNotConsulted ==
    (StartFlagged /\ FirstStepTaken) =>
        /\ prev.q = StartId
        /\ prev.rt.Head = 1
        /\ LookupTried
        /\ LookupStep => nxt = states[StartId].next[Cur(prev.rt)]
        /\ outcome = "accept" => (LookupStep /\ states[nxt].accept)
        /\ (outcome = "reject" /\ LookupStep /\ ~PopUnderflow /\ ~PopMismatch) =>
               (states[nxt].accept \/ states[nxt].reject)

\* A one-stack PDA run by itself, up to n steps of runner i ("shared": run
\* with State.Step; "machine": PDAMachine.Run) from state id and Runtime r:
\* what it returns and the (state, head, stack1) configuration after each
\* step that took a transition.
RECURSIVE PDAConfigs(_, _, _, _, _)
PDAConfigs(st, id, r, i, n) ==
    IF n = 0 THEN [outcome |-> "none", path |-> <<>>]
    ELSE LET pick == CHOOSE p \in PrintChoices(st[id]) : TRUE
             res == IF i = "shared" THEN Step(st, id, r, KindPDA, pick)
                    ELSE PDARunStep(st, id, r)
             c == [q |-> res.nxt, head |-> res.rt.Head, stack |-> res.rt.Stack]
         IN  IF res.err # "" THEN [outcome |-> "error", path |-> <<>>]
             ELSE IF res.nxt = NilId
                 THEN [outcome |-> IF res.status = Accept THEN "accept" ELSE "reject",
                       path |-> <<>>]
             ELSE IF res.status = Accept THEN [outcome |-> "accept", path |-> <<c>>]
             ELSE IF res.status = Reject THEN [outcome |-> "reject", path |-> <<c>>]
             ELSE LET rest == PDAConfigs(st, res.nxt, res.rt, i, n - 1)
                  IN  [outcome |-> rest.outcome, path |-> <<c>> \o rest.path]

SharedPDA == PDAConfigs(states, StartId, rt, "shared", MaxSteps)
MachinePDA == PDAConfigs(states, StartId, rt, "machine", MaxSteps)

\* C35: on every graph and wrapped tape on which the shared stepper with
\* kind PDA reports no error, it and PDAMachine.Run return the same result
\* and pass through the same (state, head) configurations with the same
\* stack1 contents.
C35_SharedStepperMatchesPDAMachine ==
    (kind = KindPDA /\ pc = "run" /\ steps = 0 /\ SharedPDA.outcome # "error") =>
        SharedPDA = MachinePDA

BoundsErrs == {"head out of bounds", "head moved out of tape", "PDA head out of bounds",
               "2PDA head out of bounds"}

OneWayKinds == {KindPDA, KindTwoWayPDA, KindTransducer}

\* C36: in a PDA, 2PDA or transducer run on a tape parseTapeArg accepted
\* the head is at every step within [1, len(tape) - 1], and no run ends in
\* an out-of-bounds error.
C36_HeadStaysOnTape ==
    (kind \in OneWayKinds /\ pc \in {"run", "done"} /\ Len(rt.Tape) > 0) =>
        /\ Len(rt.Tape) >= 2
        /\ rt.Tape[1] = Hash
        /\ rt.Tape[Len(rt.Tape)] = Hash
        /\ 1 <= rt.Head
        /\ rt.Head <= Len(rt.Tape) - 1
        /\ err \notin BoundsErrs

C36_Witness ==
    /\ kind \in OneWayKinds
    /\ pc = "done"
    /\ steps >= 3
    /\ LookupStep
    /\ Cur(prev.rt) = Hash
    /\ prev.rt.Head = Len(rt.Tape) - 1
    /\ rt.Head = Len(rt.Tape) - 1

StackTotal(r) == Len(r.Stack) + Len(r.Stack2)

\* C37: in a PDA or 2PDA run on a validated graph a step pushes at most one
\* symbol, a step that pushes reads a symbol other than '#', and at every
\* step len(stack1) + len(stack2) is at most head - 1, hence at most
\* len(tape) - 2.
C37_StackBoundedByHead ==
    (kind \in {KindPDA, KindTwoWayPDA} /\ pc \in {"run", "done"} /\ Len(rt.Tape) > 0) =>
        /\ steps > 0 => StackTotal(rt) <= StackTotal(prev.rt) + 1
        /\ (steps > 0 /\ StackTotal(rt) > StackTotal(prev.rt)) => Cur(prev.rt) # Hash
        /\ StackTotal(rt) <= rt.Head - 1
        /\ StackTotal(rt) <= Len(rt.Tape) - 2

C37_Witness ==
    /\ kind \in {KindPDA, KindTwoWayPDA}
    /\ PushStep
    /\ StackTotal(rt) = StackTotal(prev.rt) + 1
    /\ StackTotal(rt) = 2
    /\ rt.Head = 3
    /\ StackTotal(rt) = Len(rt.Tape) - 2
====
